---- MODULE Spec2Model ----
(***************************************************************************)
(* Verification model of the home-lab operational tooling:                 *)
(*   - the Vaultwarden backup run    (disaster-recovery/vaultwarden)       *)
(*   - the Vaultwarden restore run   (disaster-recovery/vaultwarden/Backup) *)
(* Each subsystem is a state machine of its own (SpecBackup, SpecCrypto,   *)
(* SpecExtract, SpecRestore); a subsystem's actions leave the variables of *)
(* the others unchanged.                                                   *)
(***************************************************************************)
EXTENDS Integers, Sequences, FiniteSets, TLC

(***************************************************************************)
(* Bounds of the model                                                     *)
(***************************************************************************)
\* objects in one list_objects_v2 response
MaxObjects == 3
\* distinct LastModified instants
MaxTime == 3
\* largest MAX_BACKUPS_TO_KEEP that is tried
MaxKeep == 2

(***************************************************************************)
(* Small helpers                                                           *)
(***************************************************************************)
Range(s) == {s[i] : i \in 1..Len(s)}

SeqsUpTo(S, n) == UNION {[1..k -> S] : k \in 0..n}

Min(a, b) == IF a <= b THEN a ELSE b

Max(a, b) == IF a >= b THEN a ELSE b

(***************************************************************************)
(* BACKUP RUN                                                              *)
(* Three entry points exist: Backup/backup/backup.py (with retention),     *)
(* backup.py (no retention) and main.py (the first version: no preflight,  *)
(* no upload, no cleanup).                                                 *)
(***************************************************************************)
VARIABLES
    script,               \* which entry point runs
    MAX_BACKUPS_TO_KEEP,  \* int(os.getenv("MAX_BACKUPS_TO_KEEP", "7"))
    cwdIsScriptDir,       \* the working directory is the script's directory
    pgDumpInstalled,      \* the pg_dump executable is on PATH
    sourceDirOk,          \* VAULTWARDEN_DATA_DIR is set and is a readable directory
    passwordSet,          \* BACKUP_PASSWORD is set and not empty
    dumpStaged,           \* BACKUP_SOURCE_DB exists
    dataStaged,           \* BACKUP_SOURCE_DATA exists
    bpc,                  \* position of the run
    tar_path,             \* TRUE once tar_path / tar_filename is assigned
    encrypted_path,       \* TRUE once encrypted_path / encrypted_filename is assigned
    tarFile,              \* the plaintext tar on local disk
    encFile,              \* the encrypted file on local disk
    tarMembers,           \* arcnames added to the tar
    completed,            \* phases that returned without raising
    failedPhase,          \* the phase that raised or ended the process, or "none"
    pending,              \* what the try block left for after the finally clause
    exitStatus,           \* process exit status, -1 while running
    installAttempts,      \* runs of install_postgres_client
    dumpAttempts,         \* runs of pg_dump
    uploadRequests,       \* upload_file requests sent, each with what it carried
    DB_TYPE,              \* os.getenv("VAULTWARDEN_DB_TYPE"), "unset" for None
    sourceEntries,        \* entries of VAULTWARDEN_DATA_DIR
    stagedEntries,        \* entries of BACKUP_DATA_DIR of the backup_data module
    upload_returned,      \* upload_to_s3 returned without raising
    response,             \* Contents of the list_objects_v2 response
    listed,               \* "no" | "ok" | "failed": list_objects_v2 of this run
    deleteRequests        \* keys of the delete_object requests sent, in order

backupVars == <<script, MAX_BACKUPS_TO_KEEP, cwdIsScriptDir, pgDumpInstalled,
                sourceDirOk, passwordSet, dumpStaged, dataStaged, bpc, tar_path,
                encrypted_path, tarFile, encFile, tarMembers, completed,
                failedPhase, pending, exitStatus, installAttempts, dumpAttempts,
                uploadRequests, upload_returned, response, listed, deleteRequests,
                DB_TYPE, sourceEntries, stagedEntries>>

\* --- encryption envelope: backup side and restore side
VARIABLES
    cpc,                  \* "plain" | "encrypted" | "decrypted"
    BACKUP_PASSWORD,      \* the password of the backup run
    RESTORE_PASSWORD,     \* BACKUP_PASSWORD in the environment of the restore run
    tarBytes,             \* content of the plaintext tar
    encBytes,             \* content of the .enc file
    outWritten,           \* decrypt_backup has opened output_path for writing
    outBytes,             \* content written to output_path
    decryptResult         \* "none" | "True" | "False" | "ValueError"

cryptoVars == <<cpc, BACKUP_PASSWORD, RESTORE_PASSWORD, tarBytes, encBytes,
                outWritten, outBytes, decryptResult>>

\* --- extraction of the decrypted archive into the restore workspace
VARIABLES
    xpc,                  \* "ready" | "done"
    restoreScript,        \* which restore script's extract_archive runs
    supportsFilter,       \* tarfile.extractall accepts the filter argument
    archive,              \* the members of the archive, in archive order
    rootBefore,           \* entries under extract_to before the call
    rootEntries,          \* entries under extract_to
    accepted,             \* indices of the members safe_extract_filter returned
    destOutside,          \* indices of the members whose destination, at their
                          \* turn, resolved outside extract_to
    outsideWrites,        \* indices of the members created outside extract_to
    extractError,         \* creating a member raised
    extractResult         \* "none" | "True" | "False"

extractVars == <<xpc, restoreScript, supportsFilter, archive, rootBefore,
                 rootEntries, accepted, destOutside, outsideWrites, extractError,
                 extractResult>>

\* --- a restore run (Backup/restore.py), local or remote mode
VARIABLES
    mode,                     \* "local" | "remote"
    REMOTE_SYSTEMD_SERVICE,   \* "" when no service is configured
    backup_filename,          \* the file name on the command line, split at its dots
    inputArchive,             \* the file of that name: "absent" | "encrypted" |
                              \* "plaintext" | "deleted"
    rpc,                      \* the step the run is at
    wsDump,                   \* the workspace holds vaultwarden.dump
    wsData,                   \* the workspace holds the data directory
    remote_orchestrator,      \* main_remote's variable is set
    vaultwarden,              \* application container / service: "running" |
                              \* "stopped" | "absent"
    postgres,                 \* database container: "running" | "stopped" | "absent"
    database,                 \* "original" | "dropped" | "empty" | "partial" | "restored"
    dataDirExisted,           \* the target data directory existed at the start
    dataDir,                  \* "original" | "absent" | "partial" | "restored" | "nested"
    decryptedTarExists,       \* local temporary files
    workspaceExists,
    transferExists,
    remoteTempExists,         \* REMOTE_TEMP_DIR on the server
    trace,                    \* the commands issued against services, database
                              \* and data directory, in order
    dbOutcome,                \* how the database restore step ended
    rfailed,                  \* the step that ended the run early, or "none"
    copiedOntoOriginal,       \* cp was issued with the original directory in place
    cleanupFailed,            \* cleanup_temp_files could not remove a path
    remoteCleanup,            \* how cleanup_remote ended: "none" | "ok" | "failed" |
                              \* "timeout"
    rpending,                 \* the return or exception waiting for finally
    rexit                     \* exit status of the process, -1 while it runs

restoreVars == <<mode, REMOTE_SYSTEMD_SERVICE, backup_filename, inputArchive, rpc, wsDump, wsData,
                 remote_orchestrator, vaultwarden, postgres, database,
                 dataDirExisted, dataDir, decryptedTarExists, workspaceExists,
                 transferExists, remoteTempExists, trace, dbOutcome, rfailed,
                 copiedOntoOriginal, cleanupFailed, remoteCleanup, rpending, rexit>>

\* --- KubernetesHelper._find_top_level_controller: one walk up the owners
VARIABLES
    podOwner,             \* owner_references[0] of the pod, or NoOwner
    rsOwner,              \* owner_references[0] of each ReplicaSet, or NoOwner
    wpc,                  \* "loop" | "returned"
    current_obj,          \* "pod" or the name of a ReplicaSet
    visited,              \* the owner keys seen so far
    circular,             \* the walk met a key it had visited
    wresult               \* the returned controller string, or "None"

walkVars == <<podOwner, rsOwner, wpc, current_obj, visited, circular, wresult>>

\* --- k8s_safe_shutdown.py: one node-drain run
VARIABLES
    dry_run,              \* the dry-run flag handed to every phase
    permissions_ok,       \* what verify_permissions will answer
    has_argo,             \* ArgoHelper.has_argo
    nodeReady,            \* status of each node's Ready condition, or "absent"
    replicas,             \* live spec.replicas of the Deployment or StatefulSet
    suspend,              \* live spec.suspend of the CronJob
    automated,            \* live spec.syncPolicy.automated of the application
    volState,             \* status.state of each Longhorn volume
    permissionCalls,      \* what the API answers to the list calls of verify_permissions
    replicasBefore,       \* spec.replicas when the run started
    suspendBefore,        \* spec.suspend when the run started
    automatedBefore,      \* the automated block when the run started
    dpc,                  \* the phase the run is about to execute, or "done"
    dstatus,              \* "running" | "completed" | "failed"
    phasesCompleted,      \* the phases that have completed, in order
    original_settings,    \* what quiesce_workloads returned
    checkpoint,           \* the CheckpointData object of the run
    checkpoint_file,      \* content of drain_checkpoint.json
    detachRequested,      \* volumes whose spec.nodeID was cleared
    cordoned,             \* nodes marked unschedulable
    evicted,              \* nodes whose pods were evicted
    devents               \* mutating and waiting calls of the run, in order

drainCluster ==
    <<nodeReady, replicas, suspend, automated, volState>>

drainInputs ==
    <<dry_run, permissionCalls, permissions_ok, has_argo, replicasBefore, suspendBefore,
      automatedBefore>>

drainRun ==
    <<dpc, dstatus, phasesCompleted, original_settings, checkpoint, checkpoint_file,
      detachRequested, cordoned, evicted, devents>>

drainVars == <<drainCluster, drainInputs, drainRun>>

\* --- k8s_safe_shutdown.py: single calls of detach_volume, _drain_single_node
\* --- and drain_nodes
VARIABLES
    method,               \* the method that is called
    cdry,                 \* its dry_run argument
    force_evict_pdb,      \* its force_evict_pdb argument
    citems,               \* the nodes, or the pods of the node, as the API lists them
    cqueue,               \* the nodes or pods the loop has still to process
    volume,               \* status.state and spec.nodeID of the Longhorn volume
    cpos,                 \* "call" | "evict" | "nodes" | "returned"
    attempts,             \* attempts of the running detach_volume call
    ncalls,               \* calls of the method so far
    clog,                 \* API requests issued, with their answers, in order
    cresult               \* "True" | "False" | "RetryError" | "none"

callVars ==
    <<method, cdry, force_evict_pdb, citems, cqueue, volume, cpos, attempts, ncalls,
      clog, cresult>>

\* --- k8s_safe_shutdown.py: detach_longhorn_volumes and its worker threads
VARIABLES
    pdry,                 \* the dry_run argument
    plisted,              \* status.state of each volume as get_longhorn_volumes lists it
    ptask,                \* the detach_volume call submitted for each volume: "none" |
                          \* "queued" | "running" | "True" | "False" | "raised"
    pseen,                \* the futures as_completed has handed to the main thread
    ppc,                  \* "list" | "collect" | "leave pool" | "poll" | "returned"
    ppending,             \* what the main thread does after the with block
             \* the most detach calls that ran at the same time
    ppolled,              \* wait_for_detachment was called
    panswer,              \* what wait_for_detachment returned, or "none"
    presult               \* "none" | "True" | "False"

poolVars ==
    <<pdry, plisted, ptask, pseen, ppc, ppending, ppolled, panswer, presult>>

\* --- the polling loops of restore.py and k8s_safe_shutdown.py
VARIABLES
    loop,                 \* the method whose loop runs
    lpc,                  \* "polling" | "returned"
    elapsed,              \* time.time() - start_time at the loop test, in sleep intervals
    lpasses,              \* passes through the loop body
    podPhase,             \* status.phase of each discovered pod, "gone" when deleted
    lreads,               \* what the last pass of wait_for_pod_termination read
    lanswer,              \* what the last pass of another loop was answered
    lresult               \* "none" | "True" | "False" | "raised"

pollVars == <<loop, lpc, elapsed, lpasses, podPhase, lreads, lanswer, lresult>>

notBackupVars ==
    <<cryptoVars, extractVars, restoreVars, walkVars, drainVars, callVars, poolVars,
      pollVars>>

notCryptoVars ==
    <<backupVars, extractVars, restoreVars, walkVars, drainVars, callVars, poolVars,
      pollVars>>

notExtractVars ==
    <<backupVars, cryptoVars, restoreVars, walkVars, drainVars, callVars, poolVars,
      pollVars>>

notRestoreVars ==
    <<backupVars, cryptoVars, extractVars, walkVars, drainVars, callVars, poolVars,
      pollVars>>

notWalkVars ==
    <<backupVars, cryptoVars, extractVars, restoreVars, drainVars, callVars, poolVars,
      pollVars>>

notDrainVars ==
    <<backupVars, cryptoVars, extractVars, restoreVars, walkVars, callVars, poolVars,
      pollVars>>

notCallVars ==
    <<backupVars, cryptoVars, extractVars, restoreVars, walkVars, drainVars, poolVars,
      pollVars>>

notPoolVars ==
    <<backupVars, cryptoVars, extractVars, restoreVars, walkVars, drainVars, callVars,
      pollVars>>

notPollVars ==
    <<backupVars, cryptoVars, extractVars, restoreVars, walkVars, drainVars, callVars,
      poolVars>>

Scripts == {"Backup/backup/backup.py", "backup.py", "main.py"}

\* the scripts whose main() is try / except Exception / finally
HasMain(s) == s \in {"Backup/backup/backup.py", "backup.py"}

FailingPhases == {"preflight", "database dump", "data staging", "packaging",
                  "encryption", "upload"}

\* exit codes of a failed pg_dump: a signal (negative) or an error status
ReturnCodes == {-9, 1, 2}

\* the status the operating system reports for sys.exit(code)
ExitStatusOf(code) == code % 256

NoPending == [kind |-> "none", code |-> 0]

\* values of VAULTWARDEN_DB_TYPE: the one backend the code has, none, another
DbTypes == {"postgres", "unset", "oracle"}

\* the data directory at the time of the run
SourceTrees == {{"rsa_key"}, {"rsa_key", "attachment"}}

\* the staged tree before the run: none, or the one an earlier run left
StaleTrees == {{}, {"rsa_key", "deleted"}}

\* Backup/backup/backup.py imports the backup_data.py that removes the staged
\* tree first; backup.py and main.py import the one that does not
ClearsStaged(s) == s = "Backup/backup/backup.py"

\* rmtree (where there is one), mkdir, then copytree(dirs_exist_ok=True)
\* having copied the entries in done
StagedAfter(s, source, staged, done) ==
    (IF ClearsStaged(s) THEN {} ELSE staged) \cup (source \cap done)

(***************************************************************************)
(* Object storage listing and retention                                    *)
(***************************************************************************)
\* Keys the server returns for Prefix="vaultwarden-backup-": backups, and
\* objects with the prefix and another ending (a plaintext tar, a checksum).
KeyEndings == {".tar.gz.enc", ".tar.gz"}

StartsWithBackupPrefix(key) == key.prefix = "vaultwarden-backup-"

EndsWithEnc(key) == key.ending = ".tar.gz.enc"

\* an object of the listing: its position gives the key its identity
ObjectAt(i, ending, t) ==
    [Key |-> [prefix |-> "vaultwarden-backup-", id |-> i, ending |-> ending],
     LastModified |-> t]

Listings ==
    UNION {
        {[i \in 1..n |-> ObjectAt(i, e[i], t[i])] :
            e \in [1..n -> KeyEndings], t \in [1..n -> 1..MaxTime]}
        : n \in 0..MaxObjects}

\* list.sort(key=LastModified): stable, ascending
RECURSIVE InsertByLastModified(_, _)
InsertByLastModified(x, s) ==
    IF s = <<>> THEN <<x>>
    ELSE IF x.LastModified < Head(s).LastModified THEN <<x>> \o s
    ELSE <<Head(s)>> \o InsertByLastModified(x, Tail(s))

RECURSIVE SortByLastModified(_)
SortByLastModified(s) ==
    IF s = <<>> THEN <<>>
    ELSE InsertByLastModified(s[Len(s)], SortByLastModified(SubSeq(s, 1, Len(s) - 1)))

BackupFilter(obj) == StartsWithBackupPrefix(obj.Key) /\ EndsWithEnc(obj.Key)

\* mutant: the listing is filtered and never sorted
list_backup_files_unsorted(contents, ok) ==
    IF ~ok \/ contents = <<>> THEN <<>>
    ELSE SelectSeq(contents, BackupFilter)

list_backup_files(contents, ok) ==
    IF ~ok \/ contents = <<>> THEN <<>>
    ELSE SortByLastModified(SelectSeq(contents, BackupFilter))

backups_to_delete(total_backups, keep) == total_backups - keep

\* The delete loop: range(backups_to_delete) indexes backup_files outside the
\* try, so an index past the end raises IndexError after the last delete.
delete_old_backups(contents, ok, keep) ==
    LET backup_files == list_backup_files(contents, ok)
        total == Len(backup_files)
        k == backups_to_delete(total, keep)
    IN  IF backup_files = <<>> \/ k <= 0
        THEN [requests |-> <<>>, raised |-> FALSE]
        ELSE [requests |-> [i \in 1..Min(k, total) |-> backup_files[i].Key],
              raised |-> k > total]

(***************************************************************************)
(* Control flow of a run                                                   *)
(***************************************************************************)
\* an exception leaves the try block: main() logs it and returns 1 after the
\* finally clause; main.py logs it and falls off the end of the script
Raise(phase) ==
    /\ failedPhase' = phase
    /\ IF HasMain(script)
       THEN /\ bpc' = "finally"
            /\ pending' = [kind |-> "return", code |-> 1]
            /\ exitStatus' = exitStatus
       ELSE /\ bpc' = "done"
            /\ pending' = pending
            /\ exitStatus' = 0

\* sys.exit(code): SystemExit is no Exception, so only the finally clause runs
SysExit(code, phase) ==
    /\ failedPhase' = phase
    /\ IF HasMain(script)
       THEN /\ bpc' = "finally"
            /\ pending' = [kind |-> "SystemExit", code |-> code]
            /\ exitStatus' = exitStatus
       ELSE /\ bpc' = "done"
            /\ pending' = pending
            /\ exitStatus' = ExitStatusOf(code)

Return(code) ==
    /\ bpc' = "finally"
    /\ pending' = [kind |-> "return", code |-> code]
    /\ exitStatus' = exitStatus

Proceed(phase, next) ==
    /\ bpc' = next
    /\ completed' = completed \cup {phase}
    /\ UNCHANGED <<pending, exitStatus, failedPhase>>

BackupInit ==
    /\ script \in Scripts
    /\ MAX_BACKUPS_TO_KEEP \in -1..MaxKeep
    /\ cwdIsScriptDir \in (IF script = "backup.py" THEN BOOLEAN ELSE {TRUE})
    /\ pgDumpInstalled \in BOOLEAN
    /\ sourceDirOk \in BOOLEAN
    /\ passwordSet \in BOOLEAN
    /\ dumpStaged = FALSE
    /\ dataStaged \in BOOLEAN
    /\ bpc = IF HasMain(script) THEN "check_dependencies" ELSE "backup_postgres"
    /\ tar_path = FALSE
    /\ encrypted_path = FALSE
    /\ tarFile = "absent"
    /\ encFile = "absent"
    /\ tarMembers = {}
    /\ completed = {}
    /\ failedPhase = "none"
    /\ pending = NoPending
    /\ exitStatus = -1
    /\ installAttempts = 0
    /\ dumpAttempts = 0
    /\ uploadRequests = <<>>
    /\ upload_returned = FALSE
    /\ response = <<>>
    /\ listed = "no"
    /\ deleteRequests = <<>>
    /\ DB_TYPE \in DbTypes
    /\ sourceEntries \in (IF sourceDirOk THEN SourceTrees ELSE {{}})
    /\ stagedEntries \in StaleTrees

\* check_dependencies: executables, environment, data directory, backup
\* directory, Python packages; any failed check makes main return 1
CheckDependencies ==
    /\ bpc = "check_dependencies"
    /\ UNCHANGED notBackupVars
    /\ \E envOthers \in BOOLEAN, writable \in BOOLEAN, packages \in BOOLEAN :
         LET all_checks_passed == /\ pgDumpInstalled
                                  /\ passwordSet /\ envOthers
                                  /\ sourceDirOk
                                  /\ writable
                                  /\ packages
         IN  IF all_checks_passed
             THEN Proceed("preflight", "backup_postgres")
             ELSE /\ Return(1)
                  /\ failedPhase' = "preflight"
                  /\ UNCHANGED completed
    /\ UNCHANGED <<DB_TYPE, sourceEntries, stagedEntries>>
    /\ UNCHANGED <<script, MAX_BACKUPS_TO_KEEP, cwdIsScriptDir, pgDumpInstalled,
                   sourceDirOk, passwordSet, dumpStaged, dataStaged, tar_path,
                   encrypted_path, tarFile, encFile, tarMembers, installAttempts,
                   dumpAttempts, uploadRequests, upload_returned, response,
                   listed, deleteRequests>>

\* backup_postgres with install_postgres_client
BackupPostgres ==
    /\ bpc = "backup_postgres"
    /\ UNCHANGED notBackupVars
    /\ IF pgDumpInstalled
       THEN \E r \in {"ok", "TimeoutExpired", "CalledProcessError", "OSError"} :
              /\ dumpAttempts' = dumpAttempts + 1
              /\ UNCHANGED <<installAttempts, pgDumpInstalled>>
              /\ CASE r = "ok" ->
                        /\ dumpStaged' = TRUE
                        /\ Proceed("database dump", "backup_data")
                   [] r = "TimeoutExpired" ->
                        /\ SysExit(1, "database dump")
                        /\ UNCHANGED <<dumpStaged, completed>>
                   [] r = "CalledProcessError" ->
                        /\ \E rc \in ReturnCodes : SysExit(rc, "database dump")
                        /\ UNCHANGED <<dumpStaged, completed>>
                   [] r = "OSError" ->
                        /\ Raise("database dump")
                        /\ UNCHANGED <<dumpStaged, completed>>
       ELSE \* FileNotFoundError: one installation, then one retry
            \E inst \in {"ok", "TimeoutExpired", "CalledProcessError", "apt missing"},
               r \in {"ok", "TimeoutExpired", "Exception"} :
              /\ installAttempts' = installAttempts + 1
              /\ pgDumpInstalled' = (inst = "ok")
              /\ dumpAttempts' = dumpAttempts + (IF inst = "ok" THEN 2 ELSE 1)
              /\ IF inst = "ok" /\ r = "ok"
                 THEN /\ dumpStaged' = TRUE
                      /\ Proceed("database dump", "backup_data")
                 ELSE /\ UNCHANGED <<dumpStaged, completed>>
                      /\ IF inst = "apt missing"
                         THEN Raise("database dump")
                         ELSE SysExit(1, "database dump")
    /\ UNCHANGED <<DB_TYPE, sourceEntries, stagedEntries>>
    /\ UNCHANGED <<script, MAX_BACKUPS_TO_KEEP, cwdIsScriptDir, sourceDirOk,
                   passwordSet, dataStaged, tar_path, encrypted_path, tarFile,
                   encFile, tarMembers, uploadRequests, upload_returned,
                   response, listed, deleteRequests>>

\* backup_vaultwarden_data: Backup/backup/backup_data.py stages under the
\* script's directory, backup_data.py under the working directory
BackupData ==
    /\ bpc = "backup_data"
    /\ UNCHANGED notBackupVars
    /\ \E copied \in BOOLEAN :
         IF sourceDirOk /\ copied
         THEN /\ dataStaged' = (IF script = "Backup/backup/backup.py" \/ cwdIsScriptDir
                                THEN TRUE ELSE dataStaged)
              /\ stagedEntries' =
                     StagedAfter(script, sourceEntries, stagedEntries, sourceEntries)
              /\ Proceed("data staging", "package")
         ELSE /\ Raise("data staging")
              /\ IF sourceDirOk
                 THEN \E done \in SUBSET sourceEntries :
                        /\ done # sourceEntries
                        /\ stagedEntries' =
                               StagedAfter(script, sourceEntries, stagedEntries, done)
                 ELSE UNCHANGED stagedEntries
              /\ UNCHANGED <<dataStaged, completed>>
    /\ UNCHANGED <<DB_TYPE, sourceEntries>>
    /\ UNCHANGED <<script, MAX_BACKUPS_TO_KEEP, cwdIsScriptDir, pgDumpInstalled,
                   sourceDirOk, passwordSet, dumpStaged, tar_path, encrypted_path,
                   tarFile, encFile, tarMembers, installAttempts, dumpAttempts,
                   uploadRequests, upload_returned, response, listed,
                   deleteRequests>>

\* mutant: a missing staging input is only a warning in every script
MissingInputIsWarning(s) == FALSE

\* a missing staging input is fatal in main(), a warning in main.py
MissingInputIsFatal(s) == HasMain(s)

\* Phase 3: the tar is opened, both members are added, the tar is closed
Package ==
    /\ bpc = "package"
    /\ UNCHANGED notBackupVars
    /\ tar_path' = TRUE
    /\ encrypted_path' = TRUE
    /\ \E io \in {"ok", "fails at dump", "fails at data"} :
         LET addDump == dumpStaged /\ io # "fails at dump"
             stopAtDump == (~dumpStaged /\ MissingInputIsFatal(script))
                            \/ (dumpStaged /\ io = "fails at dump")
             addData == ~stopAtDump /\ dataStaged /\ io = "ok"
             stopAtData == ~stopAtDump /\
                           ((~dataStaged /\ MissingInputIsFatal(script))
                            \/ (dataStaged /\ io # "ok"))
             raised == stopAtDump \/ stopAtData
         IN  /\ tarMembers' = (IF addDump THEN {"vaultwarden.dump"} ELSE {})
                                \cup (IF addData THEN {"data"} ELSE {})
             /\ tarFile' = IF raised THEN "partial" ELSE "complete"
             /\ IF raised
                THEN /\ Raise("packaging")
                     /\ UNCHANGED completed
                ELSE Proceed("packaging", "encrypt")
    /\ UNCHANGED <<DB_TYPE, sourceEntries, stagedEntries>>
    /\ UNCHANGED <<script, MAX_BACKUPS_TO_KEEP, cwdIsScriptDir, pgDumpInstalled,
                   sourceDirOk, passwordSet, dumpStaged, dataStaged, encFile,
                   installAttempts, dumpAttempts, uploadRequests, upload_returned,
                   response, listed, deleteRequests>>

\* where the run goes once the encrypted file is written
AfterEncrypt(s) == IF HasMain(s) THEN "upload" ELSE "end of script"

\* Phase 4: salt, key, read the tar, encrypt, write salt + ciphertext
Encrypt ==
    /\ bpc = "encrypt"
    /\ UNCHANGED notBackupVars
    /\ \E io \in {"ok", "read fails", "write fails"} :
         IF ~passwordSet \/ io = "read fails"
         THEN /\ Raise("encryption")
              /\ UNCHANGED <<encFile, completed>>
         ELSE IF io = "write fails"
         THEN /\ encFile' = "partial"
              /\ Raise("encryption")
              /\ UNCHANGED completed
         ELSE /\ encFile' = "complete"
              /\ Proceed("encryption", AfterEncrypt(script))
    /\ UNCHANGED <<DB_TYPE, sourceEntries, stagedEntries>>
    /\ UNCHANGED <<script, MAX_BACKUPS_TO_KEEP, cwdIsScriptDir, pgDumpInstalled,
                   sourceDirOk, passwordSet, dumpStaged, dataStaged, tar_path,
                   encrypted_path, tarFile, tarMembers, installAttempts,
                   dumpAttempts, uploadRequests, upload_returned, response,
                   listed, deleteRequests>>

\* mutant: the upload error is logged and the run goes on to retention
UploadFailedSwallowed ==
    /\ failedPhase' = "upload"
    /\ bpc' = "retention"
    /\ UNCHANGED <<pending, exitStatus>>

\* what main() does when upload_to_s3 has raised
UploadFailed == Raise("upload")

\* Phase 5: upload_to_s3; Backup/backup/backup.py goes on to retention,
\* backup.py returns 0
Upload ==
    /\ bpc = "upload"
    /\ UNCHANGED notBackupVars
    /\ \E r \in {"ok", "client error", "upload error"} :
         /\ uploadRequests' =
                IF r = "client error" THEN uploadRequests
                ELSE Append(uploadRequests,
                            [file |-> encFile, tar |-> tarFile, members |-> tarMembers,
                             after |-> completed])
         /\ IF r = "ok"
            THEN /\ upload_returned' = TRUE
                 /\ completed' = completed \cup {"upload"}
                 /\ UNCHANGED failedPhase
                 /\ IF script = "Backup/backup/backup.py"
                    THEN /\ bpc' = "retention"
                         /\ UNCHANGED <<pending, exitStatus>>
                    ELSE Return(0)
            ELSE /\ UploadFailed
                 /\ UNCHANGED <<upload_returned, completed>>
    /\ UNCHANGED <<DB_TYPE, sourceEntries, stagedEntries>>
    /\ UNCHANGED <<script, MAX_BACKUPS_TO_KEEP, cwdIsScriptDir, pgDumpInstalled,
                   sourceDirOk, passwordSet, dumpStaged, dataStaged, tar_path,
                   encrypted_path, tarFile, encFile, tarMembers, installAttempts,
                   dumpAttempts, response, listed, deleteRequests>>

\* Phase 6: a client is created and delete_old_backups runs; main returns 0
\* unless the client or the delete loop raised
Retention ==
    /\ bpc = "retention"
    /\ UNCHANGED notBackupVars
    /\ \/ \* boto3.client raises
          /\ Raise("retention")
          /\ UNCHANGED <<response, listed, deleteRequests, completed>>
       \/ \E contents \in Listings, ok \in BOOLEAN :
            LET d == delete_old_backups(contents, ok, MAX_BACKUPS_TO_KEEP)
            IN  /\ response' = IF ok THEN contents ELSE <<>>
                /\ listed' = IF ok THEN "ok" ELSE "failed"
                /\ deleteRequests' = d.requests
                /\ IF d.raised
                   THEN /\ Raise("retention")
                        /\ UNCHANGED completed
                   ELSE /\ Return(0)
                        /\ completed' = completed \cup {"retention"}
                        /\ UNCHANGED failedPhase
    /\ UNCHANGED <<DB_TYPE, sourceEntries, stagedEntries>>
    /\ UNCHANGED <<script, MAX_BACKUPS_TO_KEEP, cwdIsScriptDir, pgDumpInstalled,
                   sourceDirOk, passwordSet, dumpStaged, dataStaged, tar_path,
                   encrypted_path, tarFile, encFile, tarMembers, installAttempts,
                   dumpAttempts, uploadRequests, upload_returned>>

\* the finally clause of main(): unlink each assigned path that exists, then
\* the pending return or SystemExit ends the process
Finally ==
    /\ bpc = "finally"
    /\ UNCHANGED notBackupVars
    /\ tarFile' = IF tar_path THEN "absent" ELSE tarFile
    /\ encFile' = IF encrypted_path THEN "absent" ELSE encFile
    /\ exitStatus' = ExitStatusOf(pending.code)
    /\ bpc' = "done"
    /\ UNCHANGED <<DB_TYPE, sourceEntries, stagedEntries>>
    /\ UNCHANGED <<script, MAX_BACKUPS_TO_KEEP, cwdIsScriptDir, pgDumpInstalled,
                   sourceDirOk, passwordSet, dumpStaged, dataStaged, tar_path,
                   encrypted_path, tarMembers, completed, failedPhase, pending,
                   installAttempts, dumpAttempts, uploadRequests, upload_returned,
                   response, listed, deleteRequests>>

\* main.py ends after "stop = 0": upload and cleanup are commented out
EndOfScript ==
    /\ bpc = "end of script"
    /\ UNCHANGED notBackupVars
    /\ bpc' = "done"
    /\ exitStatus' = 0
    /\ UNCHANGED <<DB_TYPE, sourceEntries, stagedEntries>>
    /\ UNCHANGED <<script, MAX_BACKUPS_TO_KEEP, cwdIsScriptDir, pgDumpInstalled,
                   sourceDirOk, passwordSet, dumpStaged, dataStaged, tar_path,
                   encrypted_path, tarFile, encFile, tarMembers, completed,
                   failedPhase, pending, installAttempts, dumpAttempts,
                   uploadRequests, upload_returned, response, listed,
                   deleteRequests>>

BackupNext ==
    \/ CheckDependencies
    \/ BackupPostgres
    \/ BackupData
    \/ Package
    \/ Encrypt
    \/ Upload
    \/ Retention
    \/ Finally
    \/ EndOfScript

BackupParked ==
    /\ script = "main.py"
    /\ MAX_BACKUPS_TO_KEEP = 0
    /\ cwdIsScriptDir = TRUE
    /\ pgDumpInstalled = TRUE
    /\ sourceDirOk = TRUE
    /\ passwordSet = TRUE
    /\ dumpStaged = FALSE
    /\ dataStaged = FALSE
    /\ bpc = "not running"
    /\ tar_path = FALSE
    /\ encrypted_path = FALSE
    /\ tarFile = "absent"
    /\ encFile = "absent"
    /\ tarMembers = {}
    /\ completed = {}
    /\ failedPhase = "none"
    /\ pending = NoPending
    /\ exitStatus = -1
    /\ installAttempts = 0
    /\ dumpAttempts = 0
    /\ uploadRequests = <<>>
    /\ upload_returned = FALSE
    /\ response = <<>>
    /\ listed = "no"
    /\ deleteRequests = <<>>
    /\ DB_TYPE = "postgres"
    /\ sourceEntries = {}
    /\ stagedEntries = {}

(***************************************************************************)
(* ENCRYPTION ENVELOPE                                                     *)
(* The cipher is modelled symbolically: PBKDF2 is an injective function of *)
(* its inputs and parameters, and a Fernet token authenticates under the   *)
(* key it was made with (no key or MAC collisions).                        *)
(***************************************************************************)
\* largest plaintext tried, in bytes
MaxPlainLen == 2

Bytes == {0, 1}

\* os.urandom(16) in the encrypt step
SALT_WRITTEN == 16

\* f.read(16) in decrypt_backup
SALT_READ == 16

Passwords == {"hunter2", "correct horse"}

Raw(b) == [kind |-> "byte", v |-> b]

Salts == {[i \in 1..SALT_WRITTEN |-> Raw(b)] : b \in Bytes}

\* derive_key of the backup scripts
derive_key_backup(password, salt) ==
    [password |-> password, salt |-> salt, algorithm |-> "SHA256",
     length |-> 32, iterations |-> 480000]

\* mutant: the restore side derives with another iteration count
derive_key_other_iterations(password, salt) ==
    [password |-> password, salt |-> salt, algorithm |-> "SHA256",
     length |-> 32, iterations |-> 100000]

\* derive_key of restore.py
derive_key_restore(password, salt) ==
    [password |-> password, salt |-> salt, algorithm |-> "SHA256",
     length |-> 32, iterations |-> 480000]

\* Fernet(key).encrypt(data): version byte, ciphertext, HMAC over it
FernetEncrypt(key, data) ==
    <<[kind |-> "version", v |-> 128]>>
    \o [i \in 1..Len(data) |-> [kind |-> "ciphertext", key |-> key, v |-> data[i]]]
    \o <<[kind |-> "hmac", key |-> key, v |-> Len(data)]>>

\* Fernet(key).decrypt(token): [ok, data]; not ok is InvalidToken
FernetDecrypt(key, token) ==
    LET n == Len(token)
        wellFormed ==
            /\ n >= 2
            /\ token[1].kind = "version"
            /\ token[n].kind = "hmac"
            /\ \A i \in 2..(n - 1) : token[i].kind = "ciphertext"
        authentic ==
            /\ token[n].key = key
            /\ token[n].v = n - 2
            /\ \A i \in 2..(n - 1) : token[i].key = key
    IN  IF wellFormed /\ authentic
        THEN [ok |-> TRUE, data |-> [i \in 1..(n - 2) |-> token[i + 1].v]]
        ELSE [ok |-> FALSE, data |-> <<>>]

\* f.read(n) then f.read(): the first n bytes, and the rest
ReadHead(file, n) == SubSeq(file, 1, Min(n, Len(file)))

ReadRest(file, n) == SubSeq(file, Min(n, Len(file)) + 1, Len(file))

\* decrypt_backup: ValueError without a password; otherwise True with the
\* plaintext written, or False with output_path never opened
decrypt_backup(file, password) ==
    IF password = ""
    THEN [result |-> "ValueError", written |-> FALSE, out |-> <<>>]
    ELSE LET salt == ReadHead(file, SALT_READ)
             encrypted_data == ReadRest(file, SALT_READ)
             key == derive_key_restore(password, salt)
             d == FernetDecrypt(key, encrypted_data)
         IN  IF d.ok
             THEN [result |-> "True", written |-> TRUE, out |-> d.data]
             ELSE [result |-> "False", written |-> FALSE, out |-> <<>>]

CryptoInit ==
    /\ cpc = "plain"
    /\ BACKUP_PASSWORD \in Passwords
    /\ RESTORE_PASSWORD \in Passwords \cup {""}
    /\ tarBytes \in SeqsUpTo(Bytes, MaxPlainLen)
    /\ encBytes = <<>>
    /\ outWritten = FALSE
    /\ outBytes = <<>>
    /\ decryptResult = "none"

CryptoParked ==
    /\ cpc = "not running"
    /\ BACKUP_PASSWORD = ""
    /\ RESTORE_PASSWORD = ""
    /\ tarBytes = <<>>
    /\ encBytes = <<>>
    /\ outWritten = FALSE
    /\ outBytes = <<>>
    /\ decryptResult = "none"

\* Phase 4 of the backup run: salt + Fernet(derive_key(password, salt)).encrypt(tar)
EncryptStep ==
    /\ cpc = "plain"
    /\ \E salt \in Salts :
         encBytes' = salt \o FernetEncrypt(derive_key_backup(BACKUP_PASSWORD, salt), tarBytes)
    /\ cpc' = "encrypted"
    /\ UNCHANGED <<BACKUP_PASSWORD, RESTORE_PASSWORD, tarBytes, outWritten,
                   outBytes, decryptResult>>
    /\ UNCHANGED notCryptoVars

\* the restore run calls decrypt_backup on the file
DecryptStep ==
    /\ cpc = "encrypted"
    /\ LET r == decrypt_backup(encBytes, RESTORE_PASSWORD)
       IN  /\ decryptResult' = r.result
           /\ outWritten' = r.written
           /\ outBytes' = r.out
    /\ cpc' = "decrypted"
    /\ UNCHANGED <<BACKUP_PASSWORD, RESTORE_PASSWORD, tarBytes, encBytes>>
    /\ UNCHANGED notCryptoVars

CryptoNext ==
    \/ EncryptStep
    \/ DecryptStep

(***************************************************************************)
(* EXTRACTION                                                              *)
(* A member name is a sequence of characters; a path under the extraction  *)
(* root is a sequence of components.  Symbolic links of the archive point  *)
(* outside the extraction root.                                            *)
(***************************************************************************)
\* most members in an archive
MaxMembers == 2

RestoreScripts == {"Backup/restore.py", "restore.py"}

MemberNames ==
    { <<"/", "a">>, <<"\\", "a">>, <<".", ".", "/", "a">>, <<"a", ".", ".">>,
      <<"a">>, <<"l">>, <<"l", "/", "a">>, <<".", "/", "a">> }

Members == [name : MemberNames, type : {"file", "symlink"}]

\* what a previous run may have left under extract_to
StaleRoots ==
    { {},
      {[path |-> <<<<"o">>>>, kind |-> "file"]},
      {[path |-> <<<<"l">>>>, kind |-> "symlink"]} }

\* str.startswith for one character
StartsWith(name, c) == Len(name) >= 1 /\ name[1] = c

\* '..' in name
ContainsDotDot(name) ==
    \E i \in 1..(Len(name) - 1) : name[i] = "." /\ name[i + 1] = "."

\* name.split('/')
RECURSIVE Split(_)
Split(name) ==
    IF name = <<>> THEN << <<>> >>
    ELSE LET r == Split(Tail(name))
         IN  IF Head(name) = "/" THEN << <<>> >> \o r
             ELSE << <<Head(name)>> \o Head(r) >> \o Tail(r)

KindAt(entries, p) ==
    IF \E e \in entries : e.path = p
    THEN (CHOOSE e \in entries : e.path = p).kind
    ELSE "none"

AtRoot == [outside |-> FALSE, notdir |-> FALSE, path |-> <<>>]

\* one component of a path walk, following the links found on disk
WalkStep(entries, cur, c) ==
    IF cur.outside \/ c = <<>> \/ c = <<".">> THEN cur
    ELSE IF c = <<".", ".">>
    THEN IF cur.path = <<>> THEN [cur EXCEPT !.outside = TRUE]
         ELSE [cur EXCEPT !.path = SubSeq(cur.path, 1, Len(cur.path) - 1)]
    ELSE LET p == Append(cur.path, c)
         IN  IF KindAt(entries, p) = "symlink" THEN [cur EXCEPT !.outside = TRUE]
             ELSE [cur EXCEPT !.path = p,
                              !.notdir = cur.notdir \/ KindAt(entries, cur.path) = "file"]

RECURSIVE Walk(_, _, _)
Walk(entries, cur, comps) ==
    IF comps = <<>> THEN cur
    ELSE Walk(entries, WalkStep(entries, cur, Head(comps)), Tail(comps))

\* (Path(path) / name).resolve(): an absolute name replaces the root
Resolve(entries, name) ==
    IF StartsWith(name, "/") THEN [AtRoot EXCEPT !.outside = TRUE]
    ELSE Walk(entries, AtRoot, Split(name))

\* mutant: the filter without its test of the resolved destination
safe_extract_filter_names_only(entries, member) ==
    /\ ~(StartsWith(member.name, "/") \/ StartsWith(member.name, "\\"))
    /\ ~ContainsDotDot(member.name)

\* safe_extract_filter(member, path) is not None
safe_extract_filter(entries, member) ==
    /\ ~(StartsWith(member.name, "/") \/ StartsWith(member.name, "\\"))
    /\ ~ContainsDotDot(member.name)
    /\ ~Resolve(entries, member.name).outside

Prefixes(p) == {SubSeq(p, 1, k) : k \in 1..(Len(p) - 1)}

Put(entries, p, kind) ==
    {e \in entries : e.path # p}
        \cup {[path |-> q, kind |-> "dir"] : q \in {q \in Prefixes(p) : KindAt(entries, q) = "none"}}
        \cup {[path |-> p, kind |-> kind]}

NameComponents(name) ==
    SelectSeq(Split(name), LAMBDA c : c # <<>> /\ c # <<".">>)

\* tarfile creating one member: a regular file is opened for writing through
\* any link on its path; a link replaces what is at its own place
ExtractMember(st, i, member) ==
    LET comps == NameComponents(member.name)
        dest == IF member.type = "file" \/ comps = <<>>
                THEN Resolve(st.entries, member.name)
                ELSE LET parent == IF StartsWith(member.name, "/")
                                   THEN [AtRoot EXCEPT !.outside = TRUE]
                                   ELSE Walk(st.entries, AtRoot,
                                             SubSeq(comps, 1, Len(comps) - 1))
                     IN  IF parent.outside THEN parent
                         ELSE [parent EXCEPT
                                 !.path = Append(parent.path, comps[Len(comps)]),
                                 !.notdir = parent.notdir
                                            \/ KindAt(st.entries, parent.path) = "file"]
    IN  IF dest.outside
        THEN [st EXCEPT !.outside = st.outside \cup {i},
                        !.escaping = st.escaping \cup {i}]
        ELSE IF dest.notdir \/ dest.path = <<>> \/ KindAt(st.entries, dest.path) = "dir"
        THEN [st EXCEPT !.error = TRUE]
        ELSE [st EXCEPT !.entries = Put(st.entries, dest.path, member.type)]

\* a member left out; where it would have gone is kept for the record
Skip(st, i, member) ==
    IF Resolve(st.entries, member.name).outside
    THEN [st EXCEPT !.escaping = st.escaping \cup {i}]
    ELSE st

\* tar.extractall(path, filter=safe_extract_filter): each member is filtered
\* when its turn comes, against the directory as it then is
RECURSIVE ExtractAllFiltered(_, _, _)
ExtractAllFiltered(st, members, i) ==
    IF i > Len(members) \/ st.error THEN st
    ELSE IF safe_extract_filter(st.entries, members[i])
    THEN ExtractAllFiltered(
             ExtractMember([st EXCEPT !.accepted = st.accepted \cup {i}], i, members[i]),
             members, i + 1)
    ELSE ExtractAllFiltered(Skip(st, i, members[i]), members, i + 1)

\* tar.extractall(path, members=safe_members)
RECURSIVE ExtractAllListed(_, _, _)
ExtractAllListed(st, members, i) ==
    IF i > Len(members) \/ st.error THEN st
    ELSE IF i \in st.accepted
    THEN ExtractAllListed(ExtractMember(st, i, members[i]), members, i + 1)
    ELSE ExtractAllListed(Skip(st, i, members[i]), members, i + 1)

\* the TypeError fallback: every member is filtered before any is extracted
ExtractFallback(st, members) ==
    ExtractAllListed(
        [st EXCEPT !.accepted =
            {i \in 1..Len(members) : safe_extract_filter(st.entries, members[i])}],
        members, 1)

\* Backup/restore.py removes extract_to before extracting; restore.py does not
ClearsRoot(s) == s = "Backup/restore.py"

extract_archive(s, filterArg, members, before) ==
    LET st0 == [entries |-> IF ClearsRoot(s) THEN {} ELSE before,
                accepted |-> {}, escaping |-> {}, outside |-> {}, error |-> FALSE]
    IN  IF filterArg THEN ExtractAllFiltered(st0, members, 1)
        ELSE ExtractFallback(st0, members)

ExtractInit ==
    /\ xpc = "ready"
    /\ restoreScript \in RestoreScripts
    /\ supportsFilter \in BOOLEAN
    /\ archive \in SeqsUpTo(Members, MaxMembers)
    /\ rootBefore \in StaleRoots
    /\ rootEntries = rootBefore
    /\ accepted = {}
    /\ destOutside = {}
    /\ outsideWrites = {}
    /\ extractError = FALSE
    /\ extractResult = "none"

ExtractParked ==
    /\ xpc = "not running"
    /\ restoreScript = "restore.py"
    /\ supportsFilter = TRUE
    /\ archive = <<>>
    /\ rootBefore = {}
    /\ rootEntries = {}
    /\ accepted = {}
    /\ destOutside = {}
    /\ outsideWrites = {}
    /\ extractError = FALSE
    /\ extractResult = "none"

ExtractArchive ==
    /\ xpc = "ready"
    /\ LET st == extract_archive(restoreScript, supportsFilter, archive, rootBefore)
       IN  /\ rootEntries' = st.entries
           /\ accepted' = st.accepted
           /\ destOutside' = st.escaping
           /\ outsideWrites' = st.outside
           /\ extractError' = st.error
           /\ extractResult' = IF st.error THEN "False" ELSE "True"
    /\ xpc' = "done"
    /\ UNCHANGED <<restoreScript, supportsFilter, archive, rootBefore>>
    /\ UNCHANGED notExtractVars

ExtractNext ==
    \/ ExtractArchive

(***************************************************************************)
(* RESTORE RUN (Backup/restore.py)                                         *)
(***************************************************************************)
RestoreModes == {"local", "remote"}

rConfig == <<mode, REMOTE_SYSTEMD_SERVICE, backup_filename, dataDirExisted>>

rWorkspace == <<wsDump, wsData>>

rServices == <<vaultwarden, postgres>>

rTemp == <<decryptedTarExists, workspaceExists, transferExists, remoteTempExists>>

rCleanup == <<cleanupFailed, remoteCleanup>>

NoRPending == [kind |-> "none", code |-> 0]

\* the steps inside the try block
TrySteps ==
    {"check_dependencies", "locate", "decrypt", "extract", "verify", "connect",
     "remote_deps", "transfer", "stop_services", "ensure_db", "wait_postgres",
     "restore_db", "restore_data", "start_services"}

\* "return code" inside try: finally runs, then main returns code
RReturn(code, step) ==
    /\ rpending' = [kind |-> "return", code |-> code]
    /\ rfailed' = IF code = 0 THEN rfailed ELSE step
    /\ rpc' = "finally"
    /\ UNCHANGED rexit

\* an exception inside try is caught by "except Exception", which returns 1
RRaise(step) == RReturn(1, step)

RGoto(next) ==
    /\ rpc' = next
    /\ UNCHANGED <<rpending, rfailed, rexit>>

\* names given on the command line, split at their dots
FileNames ==
    {<<"backup", "tar", "gz", "enc">>, <<"backup", "enc">>,
     <<"backup", "tar", "gz">>, <<"backup", "enc", "bak">>}

\* Path.suffix: the last component after a dot, "" when there is none
suffix(name) == IF Len(name) > 1 THEN name[Len(name)] ELSE ""

\* Path.with_suffix: the last suffix is replaced by the given components, or
\* removed when none is given
with_suffix(name, new) ==
    (IF Len(name) > 1 THEN SubSeq(name, 1, Len(name) - 1) ELSE name) \o new

\* name.replace('.enc', '')
replace_enc(name) ==
    <<Head(name)>> \o SelectSeq(Tail(name), LAMBDA part : part # "enc")

\* decrypted_tar_file of main_local and main_remote
decrypted_tar_file(name) ==
    IF suffix(name) = "enc"
    THEN with_suffix(with_suffix(name, <<>>), <<"tar", "gz">>)
    ELSE replace_enc(name)

RestoreInit ==
    /\ mode \in RestoreModes
    /\ REMOTE_SYSTEMD_SERVICE \in {"", "vaultwarden"}
    /\ (mode = "local" => REMOTE_SYSTEMD_SERVICE = "")
    /\ backup_filename \in FileNames
    /\ inputArchive \in {"absent", "encrypted"}
    /\ rpc = "check_dependencies"
    /\ wsDump = FALSE
    /\ wsData = FALSE
    /\ remote_orchestrator = FALSE
    /\ vaultwarden \in {"running", "stopped", "absent"}
    /\ postgres \in IF mode = "local" THEN {"running", "stopped", "absent"}
                    ELSE {"running"}
    /\ database = "original"
    /\ dataDirExisted \in BOOLEAN
    /\ dataDir = "original"
    /\ decryptedTarExists = FALSE
    /\ workspaceExists = FALSE
    /\ transferExists = FALSE
    /\ remoteTempExists = FALSE
    /\ trace = <<>>
    /\ dbOutcome = "none"
    /\ rfailed = "none"
    /\ copiedOntoOriginal = FALSE
    /\ cleanupFailed = FALSE
    /\ remoteCleanup = "none"
    /\ rpending = NoRPending
    /\ rexit = -1

RestoreParked ==
    /\ mode = "local"
    /\ REMOTE_SYSTEMD_SERVICE = ""
    /\ backup_filename = <<"backup", "enc">>
    /\ inputArchive = "absent"
    /\ rpc = "not running"
    /\ wsDump = FALSE
    /\ wsData = FALSE
    /\ remote_orchestrator = FALSE
    /\ vaultwarden = "absent"
    /\ postgres = "absent"
    /\ database = "original"
    /\ dataDirExisted = FALSE
    /\ dataDir = "original"
    /\ decryptedTarExists = FALSE
    /\ workspaceExists = FALSE
    /\ transferExists = FALSE
    /\ remoteTempExists = FALSE
    /\ trace = <<>>
    /\ dbOutcome = "none"
    /\ rfailed = "none"
    /\ copiedOntoOriginal = FALSE
    /\ cleanupFailed = FALSE
    /\ remoteCleanup = "none"
    /\ rpending = NoRPending
    /\ rexit = -1

\* check_dependencies(mode): failure returns 1
RCheckDependencies ==
    /\ rpc = "check_dependencies"
    /\ \E ok \in BOOLEAN :
         IF ok THEN RGoto("locate") ELSE RReturn(1, "check_dependencies")
    /\ UNCHANGED <<rConfig, rWorkspace, remote_orchestrator, rServices, database,
                   dataDir, rTemp, trace, dbOutcome>>
    /\ UNCHANGED <<rCleanup, copiedOntoOriginal, inputArchive>>
    /\ UNCHANGED notRestoreVars

\* Phase 1: the encrypted file is there, or is downloaded, or the run ends
RLocate ==
    /\ rpc = "locate"
    /\ IF inputArchive # "absent"
       THEN /\ RGoto("decrypt")
            /\ UNCHANGED inputArchive
       ELSE \E downloaded \in BOOLEAN :
              IF downloaded
              THEN /\ inputArchive' = "encrypted"
                   /\ RGoto("decrypt")
              ELSE /\ UNCHANGED inputArchive
                   /\ RReturn(1, "locate")
    /\ UNCHANGED <<rConfig, rWorkspace, remote_orchestrator, rServices, database,
                   dataDir, rTemp, trace, dbOutcome>>
    /\ UNCHANGED <<rCleanup, copiedOntoOriginal>>
    /\ UNCHANGED notRestoreVars

\* Phase 2a: decrypt_backup
RDecrypt ==
    /\ rpc = "decrypt"
    /\ \E ok \in BOOLEAN :
         IF ok
         THEN /\ decryptedTarExists' = TRUE
              /\ inputArchive' = IF decrypted_tar_file(backup_filename) = backup_filename
                                 THEN "plaintext"
                                 ELSE inputArchive
              /\ RGoto("extract")
         ELSE /\ UNCHANGED <<decryptedTarExists, inputArchive>>
              /\ RReturn(1, "decrypt")
    /\ UNCHANGED <<rConfig, rWorkspace, remote_orchestrator, rServices, database,
                   dataDir, workspaceExists, transferExists, remoteTempExists,
                   trace, dbOutcome>>
    /\ UNCHANGED <<rCleanup, copiedOntoOriginal>>
    /\ UNCHANGED notRestoreVars

\* Phase 2b: extract_archive into RESTORE_TEMP; the archive may lack either item
RExtract ==
    /\ rpc = "extract"
    /\ workspaceExists' = TRUE
    /\ \E ok \in BOOLEAN :
         IF ok
         THEN /\ wsDump' \in BOOLEAN
              /\ wsData' \in BOOLEAN
              /\ RGoto("verify")
         ELSE /\ UNCHANGED rWorkspace
              /\ RReturn(1, "extract")
    /\ UNCHANGED <<rConfig, remote_orchestrator, rServices, database, dataDir,
                   decryptedTarExists, transferExists, remoteTempExists, trace,
                   dbOutcome>>
    /\ UNCHANGED <<rCleanup, copiedOntoOriginal, inputArchive>>
    /\ UNCHANGED notRestoreVars

\* mutant: only the dump is looked for
WorkspaceHasDump(dump, data) == dump

\* dump_file.exists() and data_dir.exists()
WorkspaceComplete(dump, data) == dump /\ data

\* verification of the extracted workspace
RVerify ==
    /\ rpc = "verify"
    /\ IF WorkspaceComplete(wsDump, wsData)
       THEN RGoto("connect")
       ELSE RReturn(1, "verify")
    /\ UNCHANGED <<rConfig, rWorkspace, remote_orchestrator, rServices, database,
                   dataDir, rTemp, trace, dbOutcome>>
    /\ UNCHANGED <<rCleanup, copiedOntoOriginal, inputArchive>>
    /\ UNCHANGED notRestoreVars

\* DockerOrchestrator() raises when the daemon is unreachable;
\* RemoteOrchestrator() raises ValueError/ConnectionError, caught: return 1
RConnect ==
    /\ rpc = "connect"
    /\ \E ok \in BOOLEAN :
         IF mode = "local"
         THEN /\ UNCHANGED remote_orchestrator
              /\ IF ok THEN RGoto("stop_services") ELSE RRaise("connect")
         ELSE /\ remote_orchestrator' = ok
              /\ IF ok THEN RGoto("remote_deps") ELSE RReturn(1, "connect")
    /\ UNCHANGED <<rConfig, rWorkspace, rServices, database, dataDir, rTemp,
                   trace, dbOutcome>>
    /\ UNCHANGED <<rCleanup, copiedOntoOriginal, inputArchive>>
    /\ UNCHANGED notRestoreVars

\* remote mode: pg_restore, psql and pg_isready must exist on the server
RRemoteDeps ==
    /\ rpc = "remote_deps"
    /\ \E r \in {"ok", "missing", "timeout"} :
         CASE r = "ok" -> RGoto("transfer")
           [] r = "missing" -> RReturn(1, "remote_deps")
           [] r = "timeout" -> RRaise("remote_deps")
    /\ UNCHANGED <<rConfig, rWorkspace, remote_orchestrator, rServices, database,
                   dataDir, rTemp, trace, dbOutcome>>
    /\ UNCHANGED <<rCleanup, copiedOntoOriginal, inputArchive>>
    /\ UNCHANGED notRestoreVars

\* remote mode, Phase 4: remote directory, transfer archive, scp, remote untar,
\* and only then the local transfer archive is unlinked
RTransfer ==
    /\ rpc = "transfer"
    /\ \E r \in {"ok", "mkdir_failed", "scp_failed", "untar_failed", "timeout"} :
         /\ remoteTempExists' \in CASE r = "mkdir_failed" -> {FALSE}
                                    [] r = "timeout" -> BOOLEAN
                                    [] OTHER -> {TRUE}
         /\ transferExists' \in CASE r \in {"scp_failed", "untar_failed"} -> {TRUE}
                                  [] r = "timeout" -> {FALSE, remoteTempExists'}
                                  [] OTHER -> {FALSE}
         /\ CASE r = "ok" -> RGoto("stop_services")
              [] r = "timeout" -> RRaise("transfer")
              [] OTHER -> RReturn(1, "transfer")
    /\ UNCHANGED <<rConfig, rWorkspace, remote_orchestrator, rServices, database,
                   dataDir, decryptedTarExists, workspaceExists, trace, dbOutcome>>
    /\ UNCHANGED <<rCleanup, copiedOntoOriginal, inputArchive>>
    /\ UNCHANGED notRestoreVars

\* stop_container: True without a stop when the container is absent or not
\* running; a failed stop leaves it running
StoppedOrStill(state) == IF state = "running" THEN {"stopped", "running"} ELSE {state}

\* local Phase 3 / remote Phase 5: the outcome of the stop is not acted on;
\* the remote step is skipped when no service is configured
RStopServices ==
    /\ rpc = "stop_services"
    /\ IF mode = "local"
       THEN /\ trace' = Append(trace, "stop_container vaultwarden")
            /\ vaultwarden' \in StoppedOrStill(vaultwarden)
            /\ RGoto("ensure_db")
       ELSE IF REMOTE_SYSTEMD_SERVICE # ""
       THEN \E timeout \in BOOLEAN :
              IF timeout
              THEN /\ UNCHANGED <<trace, vaultwarden>>
                   /\ RRaise("stop_services")
              ELSE /\ trace' = Append(trace, "systemctl stop")
                   /\ vaultwarden' \in StoppedOrStill(vaultwarden)
                   /\ RGoto("wait_postgres")
       ELSE /\ UNCHANGED <<trace, vaultwarden>>
            /\ RGoto("wait_postgres")
    /\ UNCHANGED <<rConfig, rWorkspace, remote_orchestrator, postgres, database,
                   dataDir, rTemp, dbOutcome>>
    /\ UNCHANGED <<rCleanup, copiedOntoOriginal, inputArchive>>
    /\ UNCHANGED notRestoreVars

\* local mode: start_container(postgres); when that fails, compose_up() of the
\* whole stack and a second stop of the application container
REnsureDb ==
    /\ rpc = "ensure_db"
    /\ mode = "local"
    /\ \E started \in BOOLEAN, composed \in BOOLEAN :
         IF postgres = "running"
         THEN /\ UNCHANGED <<trace, rServices>>
              /\ RGoto("wait_postgres")
         ELSE IF postgres = "stopped" /\ started
         THEN /\ trace' = Append(trace, "ensure db: start postgres")
              /\ postgres' = "running"
              /\ UNCHANGED vaultwarden
              /\ RGoto("wait_postgres")
         ELSE IF composed
         THEN /\ trace' = trace \o <<"ensure db: compose up", "ensure db: stop_container vaultwarden">>
              /\ postgres' = "running"
              /\ vaultwarden' \in {"stopped", "running"}
              /\ RGoto("wait_postgres")
         ELSE /\ trace' = Append(trace, "ensure db: compose up")
              /\ UNCHANGED rServices
              /\ RReturn(1, "ensure_db")
    /\ UNCHANGED <<rConfig, rWorkspace, remote_orchestrator, database, dataDir,
                   rTemp, dbOutcome>>
    /\ UNCHANGED <<rCleanup, copiedOntoOriginal, inputArchive>>
    /\ UNCHANGED notRestoreVars

\* pg_isready polled until the timeout; over SSH a poll may itself time out
RWaitPostgres ==
    /\ rpc = "wait_postgres"
    /\ \E r \in {"ready", "not ready"} \cup (IF mode = "remote" THEN {"timeout"} ELSE {}) :
         CASE r = "ready" -> RGoto("restore_db")
           [] r = "not ready" -> RReturn(1, "wait_postgres")
           [] r = "timeout" -> RRaise("wait_postgres")
    /\ UNCHANGED <<rConfig, rWorkspace, remote_orchestrator, rServices, database,
                   dataDir, rTemp, trace, dbOutcome>>
    /\ UNCHANGED <<rCleanup, copiedOntoOriginal, inputArchive>>
    /\ UNCHANGED notRestoreVars

\* how DROP DATABASE, CREATE DATABASE and pg_restore can end
DbOutcomes ==
    {"ok", "warnings", "create failed", "pg_restore error", "pg_restore ERROR",
     "timeout in drop", "timeout in create", "timeout in pg_restore"}

DbTimeouts == {"timeout in drop", "timeout in create", "timeout in pg_restore"}

\* the commands issued for an outcome
DbCommands(o) ==
    CASE o = "timeout in drop" -> <<"DROP DATABASE">>
      [] o \in {"create failed", "timeout in create"} -> <<"DROP DATABASE", "CREATE DATABASE">>
      [] OTHER -> <<"DROP DATABASE", "CREATE DATABASE", "pg_restore">>

\* what they leave behind, given whether the DROP went through
DbAfter(o, dropped) ==
    CASE o = "ok" -> "restored"
      [] o \in {"warnings", "pg_restore error", "pg_restore ERROR",
                "timeout in pg_restore"} -> "partial"
      [] OTHER -> IF dropped THEN "dropped" ELSE "original"

\* the outcomes in which pg_restore ran and exited with a non-zero status
NonZeroPgRestore == {"warnings", "pg_restore error", "pg_restore ERROR"}

\* the word in pg_restore's stderr that tells what happened
StderrOf(o) ==
    CASE o = "warnings" -> "warning"
      [] o = "pg_restore error" -> "error"
      [] o = "pg_restore ERROR" -> "ERROR"
      [] OTHER -> ""

\* mutant: stderr is searched as it is
lower_unchanged(text) == text

\* str.lower on the words of the model
lower(text) == IF text = "ERROR" THEN "error" ELSE text

\* "error" in result.stderr.lower()
StderrNamesError(text) == lower(text) = "error"

\* mutant: a pg_restore error is passed over like a warning
DbStepReportsLenient(m, o) ==
    CASE o \in {"ok", "warnings", "pg_restore error"} -> "True"
      [] o \in DbTimeouts /\ m = "remote" -> "raise"
      [] OTHER -> "False"

\* restore_postgres_database catches TimeoutExpired and returns False;
\* restore_postgres_remote lets run_ssh_command's TimeoutExpired through
DbStepReports(m, o) ==
    CASE o = "ok" -> "True"
      [] o \in NonZeroPgRestore -> IF StderrNamesError(StderrOf(o)) THEN "False" ELSE "True"
      [] o \in DbTimeouts /\ m = "remote" -> "raise"
      [] OTHER -> "False"

\* mutant: the run goes from the database restore straight to the start
AfterRestoreDbSkippingData == "start_services"

\* the step after a database restore that reported success
AfterRestoreDb == "restore_data"

\* local Phase 4 / remote Phase 6
RRestoreDb ==
    /\ rpc = "restore_db"
    /\ \E o \in DbOutcomes, dropped \in BOOLEAN :
         /\ dbOutcome' = o
         /\ trace' = trace \o DbCommands(o)
         /\ database' = DbAfter(o, dropped)
         /\ CASE DbStepReports(mode, o) = "True" -> RGoto(AfterRestoreDb)
              [] DbStepReports(mode, o) = "False" -> RReturn(1, "restore_db")
              [] OTHER -> RRaise("restore_db")
    /\ UNCHANGED <<rConfig, rWorkspace, remote_orchestrator, rServices, dataDir,
                   rTemp>>
    /\ UNCHANGED <<rCleanup, copiedOntoOriginal, inputArchive>>
    /\ UNCHANGED notRestoreVars

\* restore_vaultwarden_data: rmtree of the target, then copytree
LocalDataOutcomes(existed) ==
    {"ok", "copy failed"} \cup (IF existed THEN {"rmtree failed"} ELSE {})

LocalDataCommands(o, existed) ==
    (IF existed THEN <<"rmtree data dir">> ELSE <<>>)
    \o (IF o = "rmtree failed" THEN <<>> ELSE <<"copytree data dir">>)
    \o (IF o = "ok" THEN <<"data dir restored">> ELSE <<>>)

\* restore_data_directory_remote: mv of the target aside (its result is not
\* looked at), mkdir of the parent, cp -r
RemoteDataOutcomes == {"ok", "mkdir failed", "copy failed", "timeout"}

RemoteDataCommands(o, existed) ==
    (IF existed THEN <<"mv data dir aside">> ELSE <<>>)
    \o (IF o = "mkdir failed" THEN <<>> ELSE <<"cp data dir">>)
    \o (IF o = "ok" THEN <<"data dir restored">> ELSE <<>>)

RemoteDataAfter(o, existed, moved) ==
    CASE o = "mkdir failed" -> IF existed /\ moved THEN "absent" ELSE "original"
      [] o = "ok" -> IF existed /\ ~moved THEN "nested" ELSE "restored"
      [] OTHER -> "partial"

\* local Phase 5 / remote Phase 7
RRestoreData ==
    /\ rpc = "restore_data"
    /\ IF mode = "local"
       THEN \E o \in LocalDataOutcomes(dataDirExisted) :
              /\ trace' = trace \o LocalDataCommands(o, dataDirExisted)
              /\ dataDir' = IF o = "ok" THEN "restored" ELSE "partial"
              /\ UNCHANGED copiedOntoOriginal
              /\ IF o = "ok" THEN RGoto("start_services")
                 ELSE RReturn(1, "restore_data")
       ELSE \E o \in RemoteDataOutcomes, moved \in BOOLEAN :
              /\ trace' = trace \o RemoteDataCommands(o, dataDirExisted)
              /\ dataDir' = RemoteDataAfter(o, dataDirExisted, moved)
              /\ copiedOntoOriginal' = (dataDirExisted /\ ~moved /\ o # "mkdir failed")
              /\ CASE o = "ok" -> RGoto("start_services")
                   [] o = "timeout" -> RRaise("restore_data")
                   [] OTHER -> RReturn(1, "restore_data")
    /\ UNCHANGED <<rConfig, rWorkspace, remote_orchestrator, rServices, database,
                   rTemp, dbOutcome>>
    /\ UNCHANGED <<rCleanup, inputArchive>>
    /\ UNCHANGED notRestoreVars

\* local Phase 6: compose_up(); remote Phase 8: systemctl start, when a service
\* is configured; then return 0
RStartServices ==
    /\ rpc = "start_services"
    /\ IF mode = "local"
       THEN \E ok \in BOOLEAN :
              /\ trace' = Append(trace, "start all: compose up")
              /\ IF ok
                 THEN /\ vaultwarden' = "running"
                      /\ postgres' = "running"
                      /\ RReturn(0, "none")
                 ELSE /\ UNCHANGED rServices
                      /\ RReturn(1, "start_services")
       ELSE IF REMOTE_SYSTEMD_SERVICE # ""
       THEN \E r \in {"ok", "failed", "timeout"} :
              /\ trace' = Append(trace, "systemctl start")
              /\ vaultwarden' = IF r = "ok" THEN "running" ELSE vaultwarden
              /\ UNCHANGED postgres
              /\ CASE r = "ok" -> RReturn(0, "none")
                   [] r = "failed" -> RReturn(1, "start_services")
                   [] r = "timeout" -> RRaise("start_services")
       ELSE /\ UNCHANGED <<trace, rServices>>
            /\ RReturn(0, "none")
    /\ UNCHANGED <<rConfig, rWorkspace, remote_orchestrator, database, dataDir,
                   rTemp, dbOutcome>>
    /\ UNCHANGED <<rCleanup, copiedOntoOriginal, inputArchive>>
    /\ UNCHANGED notRestoreVars

\* Ctrl-C during a step of the try block: "except KeyboardInterrupt" returns 130
RInterrupt ==
    /\ rpc \in TrySteps
    /\ RReturn(130, "interrupt")
    /\ UNCHANGED <<rConfig, rWorkspace, remote_orchestrator, rServices, database,
                   dataDir, rTemp, trace, dbOutcome>>
    /\ UNCHANGED <<rCleanup, copiedOntoOriginal, inputArchive>>
    /\ UNCHANGED notRestoreVars

\* finally: cleanup_temp_files swallows its errors; cleanup_remote runs only
\* when the orchestrator was built, and a timeout of its SSH command is an
\* exception that replaces the return value
RFinally ==
    /\ rpc = "finally"
    /\ decryptedTarExists' \in {FALSE, decryptedTarExists}
    /\ workspaceExists' \in {FALSE, workspaceExists}
    /\ IF decrypted_tar_file(backup_filename) # backup_filename \/ inputArchive = "absent"
       THEN /\ UNCHANGED inputArchive
            /\ cleanupFailed' = (decryptedTarExists' \/ workspaceExists')
       ELSE IF decryptedTarExists
       THEN /\ inputArchive' = IF decryptedTarExists' THEN inputArchive ELSE "deleted"
            /\ cleanupFailed' = (decryptedTarExists' \/ workspaceExists')
       ELSE /\ inputArchive' \in {"deleted", inputArchive}
            /\ cleanupFailed' = (inputArchive' # "deleted" \/ workspaceExists')
    /\ IF remote_orchestrator
       THEN \E r \in {"ok", "failed", "timeout"} :
              /\ remoteCleanup' = r
              /\ remoteTempExists' = IF r = "ok" THEN FALSE ELSE remoteTempExists
              /\ rexit' = IF r = "timeout" THEN 1 ELSE rpending.code
       ELSE /\ UNCHANGED <<remoteTempExists, remoteCleanup>>
            /\ rexit' = rpending.code
    /\ rpc' = "done"
    /\ rpending' = NoRPending
    /\ UNCHANGED <<rConfig, rWorkspace, remote_orchestrator, rServices, database,
                   dataDir, transferExists, trace, dbOutcome, rfailed>>
    /\ UNCHANGED <<copiedOntoOriginal>>
    /\ UNCHANGED notRestoreVars

RestoreNext ==
    \/ RCheckDependencies
    \/ RLocate
    \/ RDecrypt
    \/ RExtract
    \/ RVerify
    \/ RConnect
    \/ RRemoteDeps
    \/ RTransfer
    \/ RStopServices
    \/ REnsureDb
    \/ RWaitPostgres
    \/ RRestoreDb
    \/ RRestoreData
    \/ RStartServices
    \/ RInterrupt
    \/ RFinally

(***************************************************************************)
(* OWNER WALK (k8s_safe_shutdown.py, KubernetesHelper)                     *)
(* One namespace; owner_references[0] is the only owner the code looks at. *)
(***************************************************************************)
ReplicaSets == {"A", "B"}

NoOwner == [kind |-> "none", name |-> ""]

OwnerRefs ==
    [kind : {"ReplicaSet"}, name : ReplicaSets]
        \cup {[kind |-> "Deployment", name |-> "D"], [kind |-> "Rollout", name |-> "R"]}

\* f"{owner_ref.kind}/{namespace}/{owner_ref.name}"
OwnerKey(ref) == ref.kind \o "/ns/" \o ref.name

OwnerOf(obj) == IF obj = "pod" THEN podOwner ELSE rsOwner[obj]

WalkInit ==
    /\ podOwner \in OwnerRefs \cup {NoOwner}
    /\ rsOwner \in [ReplicaSets -> OwnerRefs \cup {NoOwner}]
    /\ wpc = "loop"
    /\ current_obj = "pod"
    /\ visited = {}
    /\ circular = FALSE
    /\ wresult = "None"

WalkParked ==
    /\ podOwner = NoOwner
    /\ rsOwner = [r \in ReplicaSets |-> NoOwner]
    /\ wpc = "not running"
    /\ current_obj = "pod"
    /\ visited = {}
    /\ circular = FALSE
    /\ wresult = "None"

\* mutant: the test of the visited set is gone
SeenBeforeNever(key, seen) == FALSE

\* owner_key in visited
SeenBefore(key, seen) == key \in seen

\* one pass of the while loop, or its exit
WalkIteration ==
    /\ wpc = "loop"
    /\ LET owner_ref == OwnerOf(current_obj)
           owner_key == OwnerKey(owner_ref)
       IN  IF owner_ref = NoOwner
           THEN /\ wpc' = "returned"
                /\ wresult' = "None"
                /\ UNCHANGED <<current_obj, visited, circular>>
           ELSE IF SeenBefore(owner_key, visited)
           THEN /\ circular' = TRUE
                /\ wpc' = "returned"
                /\ wresult' = "None"
                /\ UNCHANGED <<current_obj, visited>>
           ELSE /\ visited' = visited \cup {owner_key}
                /\ UNCHANGED circular
                /\ IF owner_ref.kind = "ReplicaSet"
                   THEN \E found \in BOOLEAN :
                          IF found
                          THEN /\ current_obj' = owner_ref.name
                               /\ UNCHANGED <<wpc, wresult>>
                          ELSE /\ wpc' = "returned"
                               /\ wresult' = "None"
                               /\ UNCHANGED current_obj
                   ELSE /\ wpc' = "returned"
                        /\ wresult' = owner_key
                        /\ UNCHANGED current_obj
    /\ UNCHANGED <<podOwner, rsOwner>>
    /\ UNCHANGED notWalkVars

WalkNext ==
    \/ WalkIteration

(***************************************************************************)
(* NODE DRAIN (k8s_safe_shutdown.py)                                       *)
(* The phase methods of NodeDrainer and of its helpers are modelled from   *)
(* the source.  No command in the source calls them in sequence: the run   *)
(* that strings the phases together and saves the checkpoint follows the   *)
(* sequence of specification section 4.10.                                 *)
(***************************************************************************)
MaxReplicas == 2

Nodes == {"w1", "cp1"}

\* workers first, then control plane
DrainOrder == <<"w1", "cp1">>

ReadyValues == {"True", "False", "absent"}

\* the node lists of the runs: all Ready, one node not Ready, one node whose
\* conditions hold no Ready entry
NodeLists ==
    {ready \in [Nodes -> ReadyValues] :
        \/ \A n \in Nodes : ready[n] = "True"
        \/ ready["w1"] = "True" /\ ready["cp1"] = "False"
        \/ ready["w1"] = "absent" /\ ready["cp1"] = "True"}

Volumes == {"v1", "v2"}

VolumeStates == {"attached", "detached"}

SuspendValues == {"True", "False", "None"}

ApiOutcomes == {"ok", "read failed", "patch failed"}

NoAutomated == [present |-> FALSE, selfHeal |-> "absent", prune |-> FALSE]

AutomatedBlocks ==
    {NoAutomated}
        \cup [present : {TRUE}, selfHeal : {"True"}, prune : BOOLEAN]
        \cup {[present |-> TRUE, selfHeal |-> "False", prune |-> TRUE]}

DrainPhases ==
    <<"preflight", "discovery", "quiesce", "wait-for-termination",
      "detach-volumes", "drain-nodes">>

NoSettings == [selfHeal |-> {}, replicas |-> {}, suspend |-> {}]

\* CheckpointData as the run creates it
NewCheckpoint ==
    [timestamp |-> "this run",
     operation_phase |-> "preflight",
     original_replicas |-> [replicas |-> {}, suspend |-> {}],
     original_argo_policies |-> {}]

NoFile ==
    [exists |-> FALSE,
     timestamp |-> "",
     operation_phase |-> "",
     original_replicas |-> [replicas |-> {}, suspend |-> {}],
     original_argo_policies |-> {}]

\* the file an earlier run left behind
StaleFile ==
    [exists |-> TRUE,
     timestamp |-> "earlier run",
     operation_phase |-> "complete",
     original_replicas |-> [replicas |-> {}, suspend |-> {}],
     original_argo_policies |-> {}]

\* json.dump of a Python True, False or None
JsonLiteral(v) ==
    CASE v = "True" -> "true"
      [] v = "False" -> "false"
      [] v = "None" -> "null"

\* json.dump(asdict(checkpoint)): numbers and strings as they are
JsonOf(cp) ==
    [exists |-> TRUE,
     timestamp |-> cp.timestamp,
     operation_phase |-> cp.operation_phase,
     original_replicas |->
         [replicas |-> cp.original_replicas.replicas,
          suspend |-> {JsonLiteral(v) : v \in cp.original_replicas.suspend}],
     original_argo_policies |-> {JsonLiteral(v) : v \in cp.original_argo_policies}]

\* mutant: the file is opened without truncating what is there
save_checkpoint_keeping(file, cp) == IF file.exists THEN file ELSE JsonOf(cp)

\* NodeDrainer.save_checkpoint: open(..., 'w') replaces the whole file
save_checkpoint(file, cp) == JsonOf(cp)

\* answers to list_node / list_persistent_volume / list_deployment_for_all_namespaces
\* (one status for the three) and to the listing of the Longhorn volumes
PermissionAnswers ==
    [core : {"200", "403"}, longhorn : {"200", "404", "403"}]

\* KubernetesHelper.verify_permissions
verify_permissions(calls) ==
    IF calls.core # "200"
    THEN FALSE
    ELSE IF calls.longhorn = "404"
    THEN FALSE
    ELSE IF calls.longhorn # "200"
    THEN FALSE
    ELSE TRUE

\* NodeDrainer.preflight_checks
preflight_checks(perm, ready) ==
    IF ~perm
    THEN FALSE
    ELSE ~ \E n \in Nodes : ready[n] \notin {"True", "absent"}

\* automated.get("selfHeal", False)
SelfHealOf(block) == IF block.present /\ block.selfHeal = "True" THEN "True" ELSE "False"

\* mutant: the application is patched whatever its flag says
disable_self_heal_always_patching(argo, block, dry, outcome) ==
    IF ~argo
    THEN [setting |-> {}, automated |-> block, patched |-> FALSE, failed |-> FALSE]
    ELSE IF outcome = "read failed"
    THEN [setting |-> {}, automated |-> block, patched |-> FALSE, failed |-> TRUE]
    ELSE IF dry
    THEN [setting |-> {SelfHealOf(block)}, automated |-> block,
          patched |-> FALSE, failed |-> FALSE]
    ELSE IF outcome = "patch failed"
    THEN [setting |-> {}, automated |-> block, patched |-> FALSE, failed |-> TRUE]
    ELSE [setting |-> {SelfHealOf(block)}, automated |-> NoAutomated,
          patched |-> TRUE, failed |-> FALSE]

\* ArgoHelper.disable_self_heal: the returned dict (empty, or one selfHeal
\* entry) and the automated block after the call
disable_self_heal(argo, block, dry, outcome) ==
    IF ~argo
    THEN [setting |-> {}, automated |-> block, patched |-> FALSE, failed |-> FALSE]
    ELSE IF outcome = "read failed"
    THEN [setting |-> {}, automated |-> block, patched |-> FALSE, failed |-> TRUE]
    ELSE IF dry
    THEN [setting |-> {SelfHealOf(block)}, automated |-> block,
          patched |-> FALSE, failed |-> FALSE]
    ELSE IF SelfHealOf(block) = "True"
    THEN IF outcome = "patch failed"
         THEN [setting |-> {}, automated |-> block, patched |-> FALSE, failed |-> TRUE]
         ELSE [setting |-> {"True"}, automated |-> NoAutomated,
               patched |-> TRUE, failed |-> FALSE]
    ELSE [setting |-> {"False"}, automated |-> block, patched |-> FALSE, failed |-> FALSE]

\* ArgoHelper.restore_self_heal: the automated block after the call
restore_self_heal(argo, block, setting, dry, outcome) ==
    IF ~argo \/ setting = {} \/ dry \/ outcome # "ok"
    THEN block
    ELSE [present |-> TRUE,
          selfHeal |-> CHOOSE v \in setting : TRUE,
          prune |-> block.present /\ block.prune]

\* mutant: the count is read off the object after it was set to 0
scale_replicas_recording_after(live, dry, outcome) ==
    IF dry
    THEN [original |-> {1}, live |-> live, patched |-> FALSE, failed |-> FALSE]
    ELSE IF outcome = "read failed"
    THEN [original |-> {}, live |-> live, patched |-> FALSE, failed |-> TRUE]
    ELSE IF outcome = "patch failed"
    THEN [original |-> {0}, live |-> live, patched |-> FALSE, failed |-> TRUE]
    ELSE [original |-> {0}, live |-> 0, patched |-> TRUE, failed |-> FALSE]

\* NodeDrainer._scale_controller for a Deployment or a StatefulSet: the two
\* branches read spec.replicas, set it to 0 and patch in the same way
scale_replicas(live, dry, outcome) ==
    IF dry
    THEN [original |-> {1}, live |-> live, patched |-> FALSE, failed |-> FALSE]
    ELSE IF outcome = "read failed"
    THEN [original |-> {}, live |-> live, patched |-> FALSE, failed |-> TRUE]
    ELSE IF outcome = "patch failed"
    THEN [original |-> {live}, live |-> live, patched |-> FALSE, failed |-> TRUE]
    ELSE [original |-> {live}, live |-> 0, patched |-> TRUE, failed |-> FALSE]

\* NodeDrainer._scale_controller for a CronJob
scale_cronjob(live, dry, outcome) ==
    IF dry
    THEN [original |-> {"False"}, live |-> live, patched |-> FALSE, failed |-> FALSE]
    ELSE IF outcome = "read failed"
    THEN [original |-> {}, live |-> live, patched |-> FALSE, failed |-> TRUE]
    ELSE IF outcome = "patch failed"
    THEN [original |-> {live}, live |-> live, patched |-> FALSE, failed |-> TRUE]
    ELSE [original |-> {live}, live |-> "True", patched |-> TRUE, failed |-> FALSE]

\* the patch calls of quiesce_workloads in the order it issues them, and the
\* errors it logs
QuiesceEvents(a, c, j) ==
    (IF a.patched THEN <<"patch application">> ELSE <<>>)
        \o (IF a.failed THEN <<"application failed">> ELSE <<>>)
        \o (IF c.patched THEN <<"patch replicas">> ELSE <<>>)
        \o (IF c.failed THEN <<"replicas failed">> ELSE <<>>)
        \o (IF j.patched THEN <<"patch suspend">> ELSE <<>>)
        \o (IF j.failed THEN <<"suspend failed">> ELSE <<>>)

\* NodeDrainer.quiesce_workloads: self-heal of the application first, then
\* the controllers; what it returns, what it leaves in the cluster
quiesce_workloads(argo, block, live, flag, dry, oa, oc, oj) ==
    LET a == disable_self_heal(argo, block, dry, oa)
        c == scale_replicas(live, dry, oc)
        j == scale_cronjob(flag, dry, oj)
    IN  [settings |->
             [selfHeal |-> a.setting, replicas |-> c.original, suspend |-> j.original],
         automated |-> a.automated,
         replicas |-> c.live,
         suspend |-> j.live,
         events |-> QuiesceEvents(a, c, j)]

\* NodeDrainer.wait_for_pod_termination: True when no pod is left Running or
\* Pending within the timeout
wait_for_pod_termination(terminated) ==
    [result |-> terminated,
     events |-> <<"wait started",
                  IF terminated THEN "all pods terminated" ELSE "wait timed out">>]

\* volumes the detach phase works on: those listOk as attached
attached_volumes(state, listOk) ==
    IF listOk THEN {v \in Volumes : state[v] = "attached"} ELSE {}

\* mutant: the phase does not wait for the volumes it asked to detach
wait_for_detachment_skipped(state, names, waited) ==
    [result |-> TRUE, state |-> state]

\* LonghornHelper.wait_for_detachment
wait_for_detachment(state, names, waited) ==
    IF waited
    THEN [result |-> TRUE,
          state |-> [v \in Volumes |-> IF v \in names THEN "detached" ELSE state[v]]]
    ELSE [result |-> FALSE, state |-> state]

\* NodeDrainer.detach_longhorn_volumes
detach_longhorn_volumes(state, dry, listOk, detachOk, waited) ==
    LET names == attached_volumes(state, listOk)
        requested == IF dry THEN {} ELSE {v \in names : detachOk[v]}
    IN  IF names = {}
        THEN [result |-> TRUE, requested |-> {}, state |-> state, waited |-> FALSE]
        ELSE IF ~dry /\ requested # names
        THEN [result |-> FALSE, requested |-> requested, state |-> state,
              waited |-> FALSE]
        ELSE IF dry
        THEN [result |-> TRUE, requested |-> {}, state |-> state, waited |-> FALSE]
        ELSE LET w == wait_for_detachment(state, names, waited)
             IN  [result |-> w.result, requested |-> requested, state |-> w.state,
                  waited |-> TRUE]

DetachEvents(d) ==
    (IF "v1" \in d.requested THEN <<"detach v1">> ELSE <<>>)
        \o (IF "v2" \in d.requested THEN <<"detach v2">> ELSE <<>>)
        \o (IF d.waited /\ d.result THEN <<"all volumes detached">> ELSE <<>>)

NodeOutcomes == {"ok", "cordon failed", "evict failed"}

\* mutant: the node is cordoned and its pods evicted in dry-run as well
drain_single_node_ignoring_dry(dry, outcome) ==
    IF outcome = "cordon failed"
    THEN [result |-> FALSE, cordoned |-> FALSE, evicted |-> FALSE]
    ELSE IF outcome = "evict failed"
    THEN [result |-> FALSE, cordoned |-> TRUE, evicted |-> FALSE]
    ELSE [result |-> TRUE, cordoned |-> TRUE, evicted |-> TRUE]

\* NodeDrainer._drain_single_node
drain_single_node(dry, outcome) ==
    IF dry
    THEN [result |-> TRUE, cordoned |-> FALSE, evicted |-> FALSE]
    ELSE IF outcome = "cordon failed"
    THEN [result |-> FALSE, cordoned |-> FALSE, evicted |-> FALSE]
    ELSE IF outcome = "evict failed"
    THEN [result |-> FALSE, cordoned |-> TRUE, evicted |-> FALSE]
    ELSE [result |-> TRUE, cordoned |-> TRUE, evicted |-> TRUE]

\* NodeDrainer.drain_nodes: the nodes in order, stopping at the first failure
drain_nodes(dry, outcomes) ==
    LET first == drain_single_node(dry, outcomes[DrainOrder[1]])
        second == drain_single_node(dry, outcomes[DrainOrder[2]])
        reached == IF first.result THEN {1, 2} ELSE {1}
        at(i) == IF i = 1 THEN first ELSE second
    IN  [result |-> first.result /\ second.result,
         cordoned |-> {DrainOrder[i] : i \in {k \in reached : at(k).cordoned}},
         evicted |-> {DrainOrder[i] : i \in {k \in reached : at(k).evicted}}]

DrainEventsOf(r) ==
    (IF "w1" \in r.cordoned THEN <<"cordon w1">> ELSE <<>>)
        \o (IF "w1" \in r.evicted THEN <<"evict w1">> ELSE <<>>)
        \o (IF "cp1" \in r.cordoned THEN <<"cordon cp1">> ELSE <<>>)
        \o (IF "cp1" \in r.evicted THEN <<"evict cp1">> ELSE <<>>)

DrainInit ==
    /\ dry_run \in BOOLEAN
    /\ permissionCalls \in PermissionAnswers
    /\ permissions_ok = verify_permissions(permissionCalls)
    /\ has_argo \in BOOLEAN
    /\ nodeReady \in NodeLists
    /\ replicas \in 0..MaxReplicas
    /\ suspend \in SuspendValues
    /\ automated \in (IF has_argo THEN AutomatedBlocks ELSE {NoAutomated})
    /\ volState \in [Volumes -> VolumeStates]
    /\ replicasBefore = replicas
    /\ suspendBefore = suspend
    /\ automatedBefore = automated
    /\ dpc = "preflight"
    /\ dstatus = "running"
    /\ phasesCompleted = <<>>
    /\ original_settings = NoSettings
    /\ checkpoint = NewCheckpoint
    /\ checkpoint_file \in {NoFile, StaleFile}
    /\ detachRequested = {}
    /\ cordoned = {}
    /\ evicted = {}
    /\ devents = <<>>

DrainParked ==
    /\ dry_run = TRUE
    /\ permissionCalls = [core |-> "403", longhorn |-> "403"]
    /\ permissions_ok = FALSE
    /\ has_argo = FALSE
    /\ nodeReady = [n \in Nodes |-> "True"]
    /\ replicas = 0
    /\ suspend = "None"
    /\ automated = NoAutomated
    /\ volState = [v \in Volumes |-> "detached"]
    /\ replicasBefore = 0
    /\ suspendBefore = "None"
    /\ automatedBefore = NoAutomated
    /\ dpc = "not running"
    /\ dstatus = "not running"
    /\ phasesCompleted = <<>>
    /\ original_settings = NoSettings
    /\ checkpoint = NewCheckpoint
    /\ checkpoint_file = NoFile
    /\ detachRequested = {}
    /\ cordoned = {}
    /\ evicted = {}
    /\ devents = <<>>

\* a phase completed: the checkpoint names it and is written to the file
PhaseCompleted(phase, next, cp) ==
    /\ phasesCompleted' = Append(phasesCompleted, phase)
    /\ checkpoint' = [cp EXCEPT !.operation_phase = phase]
    /\ checkpoint_file' = save_checkpoint(checkpoint_file, checkpoint')
    /\ dpc' = next
    /\ dstatus' = IF next = "done" THEN "completed" ELSE dstatus

\* a phase failed: the run stops there
PhaseFailed ==
    /\ dpc' = "done"
    /\ dstatus' = "failed"
    /\ UNCHANGED <<phasesCompleted, checkpoint, checkpoint_file>>

DrainPreflight ==
    /\ dpc = "preflight"
    /\ IF preflight_checks(permissions_ok, nodeReady)
       THEN PhaseCompleted("preflight", "discovery", checkpoint)
       ELSE PhaseFailed
    /\ UNCHANGED <<drainCluster, drainInputs, original_settings, detachRequested,
                   cordoned, evicted, devents>>
    /\ UNCHANGED notDrainVars

DrainDiscover ==
    /\ dpc = "discovery"
    /\ PhaseCompleted("discovery", "quiesce", checkpoint)
    /\ UNCHANGED <<drainCluster, drainInputs, original_settings, detachRequested,
                   cordoned, evicted, devents>>
    /\ UNCHANGED notDrainVars

DrainQuiesce ==
    /\ dpc = "quiesce"
    /\ \E oa \in ApiOutcomes, oc \in ApiOutcomes, oj \in ApiOutcomes :
         LET q == quiesce_workloads(has_argo, automated, replicas, suspend, dry_run,
                                    oa, oc, oj)
         IN  /\ automated' = q.automated
             /\ replicas' = q.replicas
             /\ suspend' = q.suspend
             /\ original_settings' = q.settings
             /\ devents' = devents \o q.events
             /\ PhaseCompleted("quiesce", "wait-for-termination",
                    [checkpoint EXCEPT
                        !.original_replicas =
                            [replicas |-> q.settings.replicas,
                             suspend |-> q.settings.suspend],
                        !.original_argo_policies = q.settings.selfHeal])
    /\ UNCHANGED <<nodeReady, volState, drainInputs, detachRequested,
                   cordoned, evicted>>
    /\ UNCHANGED notDrainVars

DrainWait ==
    /\ dpc = "wait-for-termination"
    /\ \E terminated \in BOOLEAN :
         LET w == wait_for_pod_termination(terminated)
         IN  /\ devents' = devents \o w.events
             /\ IF w.result
                THEN PhaseCompleted("wait-for-termination", "detach-volumes", checkpoint)
                ELSE PhaseFailed
    /\ UNCHANGED <<drainCluster, drainInputs, original_settings, detachRequested,
                   cordoned, evicted>>
    /\ UNCHANGED notDrainVars

DrainDetach ==
    /\ dpc = "detach-volumes"
    /\ \E listOk \in BOOLEAN, detachOk \in [Volumes -> BOOLEAN], waited \in BOOLEAN :
         LET d == detach_longhorn_volumes(volState, dry_run, listOk, detachOk, waited)
         IN  /\ volState' = d.state
             /\ detachRequested' = d.requested
             /\ devents' = devents \o DetachEvents(d)
             /\ IF d.result
                THEN PhaseCompleted("detach-volumes", "drain-nodes", checkpoint)
                ELSE PhaseFailed
    /\ UNCHANGED <<nodeReady, replicas, suspend, automated, drainInputs,
                   original_settings, cordoned, evicted>>
    /\ UNCHANGED notDrainVars

DrainDrainNodes ==
    /\ dpc = "drain-nodes"
    /\ \E outcomes \in [Nodes -> NodeOutcomes] :
         LET r == drain_nodes(dry_run, outcomes)
         IN  /\ cordoned' = r.cordoned
             /\ evicted' = r.evicted
             /\ devents' = devents \o DrainEventsOf(r)
             /\ IF r.result
                THEN PhaseCompleted("drain-nodes", "report", checkpoint)
                ELSE PhaseFailed
    /\ UNCHANGED <<drainCluster, drainInputs, original_settings, detachRequested>>
    /\ UNCHANGED notDrainVars

\* generate_report: the run is over
DrainReport ==
    /\ dpc = "report"
    /\ PhaseCompleted("complete", "done", checkpoint)
    /\ UNCHANGED <<drainCluster, drainInputs, original_settings, detachRequested,
                   cordoned, evicted, devents>>
    /\ UNCHANGED notDrainVars

DrainNext ==
    \/ DrainPreflight
    \/ DrainDiscover
    \/ DrainQuiesce
    \/ DrainWait
    \/ DrainDetach
    \/ DrainDrainNodes
    \/ DrainReport

(***************************************************************************)
(* SINGLE CALLS (k8s_safe_shutdown.py)                                     *)
(* detach_volume with its retry decorator, _drain_single_node pod by pod,  *)
(* drain_nodes node by node.                                               *)
(***************************************************************************)
\* @retry(stop=stop_after_attempt(5), ...)
stop_after_attempt == 5

MaxPods == 2

MaxCalls == 2

NodeLabels == {"control-plane", "master", "worker"}

\* answers of create_namespaced_pod_eviction
EvictionAnswers == {"201", "429", "500"}

Item(n, t) == [name |-> n, tag |-> t]

\* list_node: three nodes in the order of the API, each with its role label
NodeItems == {[i \in 1..3 |-> Item(<<"n1", "n2", "n3">>[i], f[i])] : f \in [1..3 -> NodeLabels]}

\* the pods of the node that are to be evicted, each with what the eviction
\* API will answer
PodItems ==
    {[i \in 1..k |-> Item(<<"p1", "p2", "p3", "p4", "p5">>[i], f[i])] :
        k \in 0..MaxPods, f \in [1..MaxPods -> EvictionAnswers]}

VolumeObjects ==
    {[state |-> "attached", nodeID |-> "w1"],
     [state |-> "detaching", nodeID |-> ""],
     [state |-> "detached", nodeID |-> ""]}

NoVolume == [state |-> "detached", nodeID |-> ""]

Entry(op, target, status) == [op |-> op, target |-> target, status |-> status]

IsControlPlane(item) == item.tag \in {"control-plane", "master"}

IsWorker(item) == ~IsControlPlane(item)

\* mutant: the nodes are drained in the order of the API
all_nodes_as_listed(nodes) == nodes

\* worker_nodes + control_plane_nodes
all_nodes(nodes) == SelectSeq(nodes, IsWorker) \o SelectSeq(nodes, IsControlPlane)

CallsInit ==
    /\ method \in {"detach_volume", "_drain_single_node", "drain_nodes"}
    /\ cdry \in BOOLEAN
    /\ force_evict_pdb \in (IF method = "_drain_single_node" THEN BOOLEAN ELSE {FALSE})
    /\ citems \in (CASE method = "detach_volume" -> {<<>>}
                     [] method = "_drain_single_node" -> PodItems
                     [] method = "drain_nodes" -> NodeItems)
    /\ cqueue = <<>>
    /\ volume \in (IF method = "detach_volume" THEN VolumeObjects ELSE {NoVolume})
    /\ cpos = "call"
    /\ attempts = 0
    /\ ncalls = 1
    /\ clog = <<>>
    /\ cresult = "none"

CallsParked ==
    /\ method = "none"
    /\ cdry = TRUE
    /\ force_evict_pdb = FALSE
    /\ citems = <<>>
    /\ cqueue = <<>>
    /\ volume = NoVolume
    /\ cpos = "not running"
    /\ attempts = 0
    /\ ncalls = 0
    /\ clog = <<>>
    /\ cresult = "none"

CallReturns(r) ==
    /\ cpos' = "returned"
    /\ cresult' = r

\* an exception that is no ApiException leaves detach_volume: tenacity calls
\* it again until stop_after_attempt is reached, then raises RetryError
Retried ==
    IF attempts + 1 < stop_after_attempt
    THEN UNCHANGED <<cpos, cresult>>
    ELSE CallReturns("RetryError")

\* mutant: the volume is patched whatever state it reports
AlreadyDetachedNever(v) == FALSE

\* volume.get("status", {}).get("state") == "detached"
AlreadyDetached(v) == v.state = "detached"

\* one attempt of LonghornHelper.detach_volume
DetachAttempt ==
    /\ method = "detach_volume"
    /\ cpos = "call"
    /\ attempts' = attempts + 1
    /\ IF cdry
       THEN /\ CallReturns("True")
            /\ UNCHANGED <<volume, clog>>
       ELSE \E read \in {"200", "ApiException", "ConnectionError"} :
              IF read # "200"
              THEN /\ clog' = Append(clog, Entry("get volume", "v1", read))
                   /\ UNCHANGED volume
                   /\ IF read = "ApiException" THEN CallReturns("False") ELSE Retried
              ELSE IF AlreadyDetached(volume)
              THEN /\ clog' = Append(clog, Entry("get volume", "v1", read))
                   /\ UNCHANGED volume
                   /\ CallReturns("True")
              ELSE \E patch \in {"200", "ApiException", "ConnectionError"} :
                     /\ clog' = clog \o <<Entry("get volume", "v1", read),
                                          Entry("patch volume", "v1", patch)>>
                     /\ volume' = IF patch = "200"
                                  THEN [volume EXCEPT !.nodeID = ""]
                                  ELSE volume
                     /\ CASE patch = "200" -> CallReturns("True")
                          [] patch = "ApiException" -> CallReturns("False")
                          [] patch = "ConnectionError" -> Retried
    /\ UNCHANGED <<method, cdry, force_evict_pdb, citems, cqueue, ncalls>>
    /\ UNCHANGED notCallVars

\* Longhorn detaches a volume whose nodeID was cleared
VolumeDetaches ==
    /\ method = "detach_volume"
    /\ cpos = "returned"
    /\ volume.nodeID = ""
    /\ volume.state # "detached"
    /\ volume' = [volume EXCEPT !.state = "detached"]
    /\ UNCHANGED <<method, cdry, force_evict_pdb, citems, cqueue, cpos, attempts,
                   ncalls, clog, cresult>>
    /\ UNCHANGED notCallVars

\* detach_volume is called once more on the same volume
DetachAgain ==
    /\ method = "detach_volume"
    /\ cpos = "returned"
    /\ ncalls < MaxCalls
    /\ ncalls' = ncalls + 1
    /\ attempts' = 0
    /\ cpos' = "call"
    /\ cresult' = "none"
    /\ clog' = Append(clog, Entry("call", "detach_volume", cresult))
    /\ UNCHANGED <<method, cdry, force_evict_pdb, citems, cqueue, volume>>
    /\ UNCHANGED notCallVars

\* _drain_single_node up to the eviction loop: cordon, then list the pods
CordonNode ==
    /\ method = "_drain_single_node"
    /\ cpos = "call"
    /\ IF cdry
       THEN /\ CallReturns("True")
            /\ UNCHANGED <<clog, cqueue>>
       ELSE \E cordon \in {"200", "ApiException"}, list \in {"200", "ApiException"} :
              IF cordon # "200"
              THEN /\ clog' = Append(clog, Entry("patch_node", "node", cordon))
                   /\ CallReturns("False")
                   /\ UNCHANGED cqueue
              ELSE /\ clog' = clog \o <<Entry("patch_node", "node", cordon),
                                        Entry("list pods", "node", list)>>
                   /\ IF list # "200"
                      THEN /\ CallReturns("False")
                           /\ UNCHANGED cqueue
                      ELSE IF citems = <<>>
                      THEN /\ CallReturns("True")
                           /\ UNCHANGED cqueue
                      ELSE /\ cqueue' = citems
                           /\ cpos' = "evict"
                           /\ UNCHANGED cresult
    /\ UNCHANGED <<method, cdry, force_evict_pdb, citems, volume, attempts, ncalls>>
    /\ UNCHANGED notCallVars

\* mutant: a blocked eviction ends the drain whatever the flag says
ForceDeleteNever(flag) == FALSE

\* if force_evict_pdb
ForceDelete(flag) == flag

\* one pass of the eviction loop of _drain_single_node
EvictPod ==
    /\ method = "_drain_single_node"
    /\ cpos = "evict"
    /\ cqueue # <<>>
    /\ LET pod == Head(cqueue)
           evict == Entry("evict", pod.name, pod.tag)
       IN  CASE pod.tag = "201" ->
                  /\ clog' = Append(clog, evict)
                  /\ cqueue' = Tail(cqueue)
                  /\ UNCHANGED <<cpos, cresult>>
             [] pod.tag = "429" /\ ForceDelete(force_evict_pdb) ->
                  \E delete \in {"200", "ApiException"} :
                    /\ clog' = clog \o <<evict, Entry("delete grace 0", pod.name, delete)>>
                    /\ IF delete = "200"
                       THEN /\ cqueue' = Tail(cqueue)
                            /\ UNCHANGED <<cpos, cresult>>
                       ELSE /\ CallReturns("False")
                            /\ UNCHANGED cqueue
             [] OTHER ->
                  /\ clog' = Append(clog, evict)
                  /\ CallReturns("False")
                  /\ UNCHANGED cqueue
    /\ UNCHANGED <<method, cdry, force_evict_pdb, citems, volume, attempts, ncalls>>
    /\ UNCHANGED notCallVars

\* the polling loop that ends _drain_single_node
AwaitEvictions ==
    /\ method = "_drain_single_node"
    /\ cpos = "evict"
    /\ cqueue = <<>>
    /\ \E gone \in BOOLEAN : CallReturns(IF gone THEN "True" ELSE "False")
    /\ UNCHANGED <<method, cdry, force_evict_pdb, citems, cqueue, volume, attempts,
                   ncalls, clog>>
    /\ UNCHANGED notCallVars

\* drain_nodes up to its loop: list the nodes, partition them
ListNodes ==
    /\ method = "drain_nodes"
    /\ cpos = "call"
    /\ cqueue' = all_nodes(citems)
    /\ cpos' = "nodes"
    /\ UNCHANGED <<method, cdry, force_evict_pdb, citems, volume, attempts, ncalls,
                   clog, cresult>>
    /\ UNCHANGED notCallVars

\* one pass of the loop of drain_nodes: _drain_single_node on the next node
DrainNode ==
    /\ method = "drain_nodes"
    /\ cpos = "nodes"
    /\ IF cqueue = <<>>
       THEN /\ CallReturns("True")
            /\ UNCHANGED <<clog, cqueue>>
       ELSE LET node == Head(cqueue)
            IN  \E outcome \in NodeOutcomes :
                  LET r == drain_single_node(cdry, outcome)
                  IN  /\ clog' = clog
                            \o (IF r.cordoned
                                THEN <<Entry("cordon", node.name, node.tag)>> ELSE <<>>)
                            \o (IF r.evicted
                                THEN <<Entry("evict", node.name, node.tag)>> ELSE <<>>)
                            \o <<Entry("_drain_single_node", node.name,
                                       IF r.result THEN "True" ELSE "False")>>
                      /\ IF r.result
                         THEN /\ cqueue' = Tail(cqueue)
                              /\ UNCHANGED <<cpos, cresult>>
                         ELSE /\ CallReturns("False")
                              /\ UNCHANGED cqueue
    /\ UNCHANGED <<method, cdry, force_evict_pdb, citems, volume, attempts, ncalls>>
    /\ UNCHANGED notCallVars

CallsNext ==
    \/ DetachAttempt
    \/ VolumeDetaches
    \/ DetachAgain
    \/ CordonNode
    \/ EvictPod
    \/ AwaitEvictions
    \/ ListNodes
    \/ DrainNode

(***************************************************************************)
(* NodeDrainer.detach_longhorn_volumes with its pool of worker threads     *)
(***************************************************************************)
max_workers == 5

MaxPoolVolumes == 6

PoolVolumes == 1..MaxPoolVolumes

\* what get_longhorn_volumes lists: every volume attached, none attached
\* (also the listing that failed and came back empty), or the first two
PoolListings ==
    {[v \in PoolVolumes |-> "attached"],
     [v \in PoolVolumes |-> "detached"],
     [v \in PoolVolumes |-> IF v <= 2 THEN "attached" ELSE "detaching"]}

\* attached_volumes: the names whose state is 'attached' in the listing
attached_names(listing) == {v \in PoolVolumes : listing[v] = "attached"}

Running == {v \in PoolVolumes : ptask[v] = "running"}

Finished == {v \in PoolVolumes : ptask[v] \in {"True", "False", "raised"}}

\* mutant: a thread is started for every submitted call
WorkerFreeAlways(running) == TRUE

\* ThreadPoolExecutor(max_workers=5): a queued call starts when fewer than
\* max_workers calls are running
WorkerFree(running) == Cardinality(running) < max_workers

PoolInit ==
    /\ pdry \in BOOLEAN
    /\ plisted \in PoolListings
    /\ ptask = [v \in PoolVolumes |-> "none"]
    /\ pseen = {}
    /\ ppc = "list"
    /\ ppending = "none"
    /\ ppolled = FALSE
    /\ panswer = "none"
    /\ presult = "none"

PoolParked ==
    /\ pdry = TRUE
    /\ plisted = [v \in PoolVolumes |-> "detached"]
    /\ ptask = [v \in PoolVolumes |-> "none"]
    /\ pseen = {}
    /\ ppc = "not running"
    /\ ppending = "none"
    /\ ppolled = FALSE
    /\ panswer = "none"
    /\ presult = "none"

\* the listing, the filter on 'attached' and the submission of one
\* detach_volume call per attached volume
PoolList ==
    /\ ppc = "list"
    /\ IF attached_names(plisted) = {}
       THEN /\ ppc' = "returned"
            /\ presult' = "True"
            /\ UNCHANGED ptask
       ELSE /\ ptask' = [v \in PoolVolumes |->
                            IF v \in attached_names(plisted) THEN "queued" ELSE "none"]
            /\ ppc' = "collect"
            /\ UNCHANGED presult
    /\ UNCHANGED <<pdry, plisted, pseen, ppending, ppolled, panswer>>
    /\ UNCHANGED notPoolVars

\* a worker thread takes the oldest queued call
WorkerStarts ==
    /\ \E v \in PoolVolumes :
         /\ ptask[v] = "queued"
         /\ \A u \in PoolVolumes : ptask[u] = "queued" => v <= u
         /\ WorkerFree(Running)
         /\ ptask' = [ptask EXCEPT ![v] = "running"]
    /\ UNCHANGED <<pdry, plisted, pseen, ppc, ppending, ppolled, panswer, presult>>
    /\ UNCHANGED notPoolVars

\* a detach_volume call ends: True, False, or an exception (RetryError)
WorkerFinishes ==
    /\ \E v \in Running, outcome \in (IF pdry THEN {"True"} ELSE {"True", "False", "raised"}) :
         ptask' = [ptask EXCEPT ![v] = outcome]
    /\ UNCHANGED <<pdry, plisted, pseen, ppc, ppending, ppolled, panswer, presult>>
    /\ UNCHANGED notPoolVars

\* one pass of "for future in as_completed(futures)": a result that is not
\* True, or an exception, makes the main thread return False
Collect ==
    /\ ppc = "collect"
    /\ \E v \in Finished \ pseen :
         /\ pseen' = pseen \cup {v}
         /\ IF ptask[v] # "True"
            THEN /\ ppending' = "return False"
                 /\ ppc' = "leave pool"
            ELSE IF pseen' = attached_names(plisted)
            THEN /\ ppending' = "go on"
                 /\ ppc' = "leave pool"
            ELSE UNCHANGED <<ppending, ppc>>
    /\ UNCHANGED <<pdry, plisted, ptask, ppolled, panswer, presult>>
    /\ UNCHANGED notPoolVars

\* leaving the with block: shutdown(wait=True) returns when every submitted
\* call has ended; then the pending return, the dry-run return, or the poll
LeavePool ==
    /\ ppc = "leave pool"
    /\ Finished = attached_names(plisted)
    /\ CASE ppending = "return False" ->
              /\ ppc' = "returned"
              /\ presult' = "False"
         [] ppending = "go on" /\ pdry ->
              /\ ppc' = "returned"
              /\ presult' = "True"
         [] OTHER ->
              /\ ppc' = "poll"
              /\ UNCHANGED presult
    /\ ppending' = "none"
    /\ UNCHANGED <<pdry, plisted, ptask, pseen, ppolled, panswer>>
    /\ UNCHANGED notPoolVars

\* return self.longhorn.wait_for_detachment(attached_volumes)
PollDetachment ==
    /\ ppc = "poll"
    /\ \E detached \in BOOLEAN :
         /\ panswer' = (IF detached THEN "True" ELSE "False")
         /\ presult' = panswer'
    /\ ppolled' = TRUE
    /\ ppc' = "returned"
    /\ UNCHANGED <<pdry, plisted, ptask, pseen, ppending>>
    /\ UNCHANGED notPoolVars

PoolNext ==
    \/ PoolList
    \/ WorkerStarts
    \/ WorkerFinishes
    \/ Collect
    \/ LeavePool
    \/ PollDetachment

(***************************************************************************)
(* The polling loops: while time.time() - start_time < timeout             *)
(***************************************************************************)
\* the timeout of a loop and the longest pass (calls and sleep), both in
\* sleep intervals of the loop
PollTimeout == 3

MaxPassTime == 2

MaxElapsed == PollTimeout + MaxPassTime

Loops ==
    {"wait_for_postgres", "wait_for_postgres_remote", "wait_for_detachment",
     "wait_for_pod_termination", "_drain_single_node"}

PollPods == {"pod1", "pod2"}

PodPhases == {"Pending", "Running", "Succeeded", "gone"}

\* what one pass of a loop can be answered
Answers(l) ==
    CASE l = "wait_for_postgres" -> {"rc 0", "rc 1", "TimeoutExpired", "FileNotFoundError"}
      [] l = "wait_for_postgres_remote" -> {"rc 0", "rc 1", "TimeoutExpired"}
      [] l = "wait_for_detachment" -> {"all detached", "not detached", "ApiException"}
      [] l = "_drain_single_node" -> {"no pods", "pods remain", "ApiException"}
      [] OTHER -> {}

\* what the loop body does with the answer: return True, return False, let
\* an exception out, or sleep and test the time again
PassOutcome(l, answer) ==
    CASE answer \in {"rc 0", "all detached", "no pods"} -> "True"
      [] l = "wait_for_postgres_remote" /\ answer = "TimeoutExpired" -> "raised"
      [] l = "_drain_single_node" /\ answer = "ApiException" -> "False"
      [] OTHER -> "sleep"

\* what read_namespaced_pod can answer for a pod in a phase: the phase, 404
\* for a pod that is gone, or another ApiException (500 stands for all)
ReadsOf(phase) == IF phase = "gone" THEN {"404", "500"} ELSE {phase, "500"}

\* how the phase of a pod can change between two passes
NextPhases(phase) ==
    CASE phase = "Pending" -> {"Running", "gone"}
      [] phase = "Running" -> {"Succeeded", "gone"}
      [] phase = "Succeeded" -> {"gone"}
      [] OTHER -> {}

\* mutant: a pod whose read failed is kept among the active pods
ActiveOrUnread(read) == read \in {"Running", "Pending", "404", "500"}

\* current_pod.status.phase in ["Running", "Pending"]; an ApiException is passed over
Active(read) == read \in {"Running", "Pending"}

\* mutant: the time is never tested
InTimeAlways(e) == TRUE

\* while time.time() - start_time < timeout
InTime(e) == e < PollTimeout

PollInit ==
    /\ loop \in Loops
    /\ lpc = "polling"
    /\ elapsed = 0
    /\ lpasses = 0
    /\ podPhase \in (IF loop = "wait_for_pod_termination"
                     THEN [PollPods -> PodPhases]
                     ELSE {[p \in PollPods |-> "gone"]})
    /\ lreads = [p \in PollPods |-> "none"]
    /\ lanswer = "none"
    /\ lresult = "none"

PollParked ==
    /\ loop = "none"
    /\ lpc = "not running"
    /\ elapsed = 0
    /\ lpasses = 0
    /\ podPhase = [p \in PollPods |-> "gone"]
    /\ lreads = [p \in PollPods |-> "none"]
    /\ lanswer = "none"
    /\ lresult = "none"

LoopReturns(r) ==
    /\ lpc' = "returned"
    /\ lresult' = r
    /\ UNCHANGED elapsed

\* time.sleep, and the time the calls of the pass took
LoopSleeps ==
    /\ \E d \in 1..MaxPassTime : elapsed' = Min(elapsed + d, MaxElapsed)
    /\ UNCHANGED <<lpc, lresult>>

\* one pass through the body of the loop
PollPass ==
    /\ lpc = "polling"
    /\ InTime(elapsed)
    /\ lpasses' = Min(lpasses + 1, MaxElapsed)
    /\ IF loop = "wait_for_pod_termination"
       THEN \E reads \in [PollPods -> PodPhases \cup {"404", "500"}] :
              /\ \A p \in PollPods : reads[p] \in ReadsOf(podPhase[p])
              /\ lreads' = reads
              /\ UNCHANGED lanswer
              /\ IF \E p \in PollPods : Active(reads[p])
                 THEN LoopSleeps
                 ELSE LoopReturns("True")
       ELSE \E answer \in Answers(loop) :
              /\ lanswer' = answer
              /\ UNCHANGED lreads
              /\ IF PassOutcome(loop, answer) = "sleep"
                 THEN LoopSleeps
                 ELSE LoopReturns(PassOutcome(loop, answer))
    /\ UNCHANGED <<loop, podPhase>>
    /\ UNCHANGED notPollVars

\* the loop test fails: the timeout is logged and False returned
PollTimesOut ==
    /\ lpc = "polling"
    /\ ~InTime(elapsed)
    /\ LoopReturns("False")
    /\ UNCHANGED <<loop, lpasses, podPhase, lreads, lanswer>>
    /\ UNCHANGED notPollVars

\* the cluster: a discovered pod starts, ends or is deleted while the loop runs
PodChanges ==
    /\ loop = "wait_for_pod_termination"
    /\ lpc = "polling"
    /\ \E p \in PollPods :
         \E next \in NextPhases(podPhase[p]) :
           podPhase' = [podPhase EXCEPT ![p] = next]
    /\ UNCHANGED <<loop, lpc, elapsed, lpasses, lreads, lanswer, lresult>>
    /\ UNCHANGED notPollVars

PollStep == PollPass \/ PollTimesOut

PollNext ==
    \/ PollPass
    \/ PollTimesOut
    \/ PodChanges

allVars ==
    <<backupVars, cryptoVars, extractVars, restoreVars, walkVars, drainVars, callVars,
      poolVars, pollVars>>

BackupStart ==
    BackupInit /\ CryptoParked /\ ExtractParked /\ RestoreParked /\ WalkParked /\ DrainParked /\ CallsParked
        /\ PoolParked /\ PollParked

SpecBackup == BackupStart /\ [][BackupNext]_allVars

CryptoStart ==
    CryptoInit /\ BackupParked /\ ExtractParked /\ RestoreParked /\ WalkParked /\ DrainParked /\ CallsParked
        /\ PoolParked /\ PollParked

SpecCrypto == CryptoStart /\ [][CryptoNext]_allVars

ExtractStart ==
    ExtractInit /\ BackupParked /\ CryptoParked /\ RestoreParked /\ WalkParked /\ DrainParked /\ CallsParked
        /\ PoolParked /\ PollParked

SpecExtract == ExtractStart /\ [][ExtractNext]_allVars

RestoreStart ==
    RestoreInit /\ BackupParked /\ CryptoParked /\ ExtractParked /\ WalkParked /\ DrainParked /\ CallsParked
        /\ PoolParked /\ PollParked

SpecRestore == RestoreStart /\ [][RestoreNext]_allVars

WalkStart ==
    WalkInit /\ BackupParked /\ CryptoParked /\ ExtractParked /\ RestoreParked
        /\ DrainParked /\ CallsParked
        /\ PoolParked /\ PollParked

\* the while loop runs on: no iteration waits for anything but its own API call
SpecWalk == WalkStart /\ [][WalkNext]_allVars /\ WF_allVars(WalkNext)

DrainStart ==
    DrainInit /\ BackupParked /\ CryptoParked /\ ExtractParked /\ RestoreParked
        /\ WalkParked /\ CallsParked
        /\ PoolParked /\ PollParked

SpecDrain == DrainStart /\ [][DrainNext]_allVars

CallsStart ==
    CallsInit /\ BackupParked /\ CryptoParked /\ ExtractParked /\ RestoreParked
        /\ WalkParked /\ DrainParked
        /\ PoolParked /\ PollParked

SpecCalls == CallsStart /\ [][CallsNext]_allVars

PoolStart ==
    PoolInit /\ BackupParked /\ CryptoParked /\ ExtractParked /\ RestoreParked
        /\ WalkParked /\ DrainParked /\ CallsParked /\ PollParked

SpecPool == PoolStart /\ [][PoolNext]_allVars

PollStart ==
    PollInit /\ BackupParked /\ CryptoParked /\ ExtractParked /\ RestoreParked
        /\ WalkParked /\ DrainParked /\ CallsParked /\ PoolParked

\* the loop runs on: every call of a pass comes back (with an answer, an
\* error or its own timeout) and every sleep ends
SpecPoll == PollStart /\ [][PollNext]_allVars /\ WF_allVars(PollStep)

(***************************************************************************)
(* Properties of the backup run                                            *)
(***************************************************************************)
BothMembers == {"vaultwarden.dump", "data"}

BeforeUpload == {"preflight", "database dump", "data staging", "packaging",
                 "encryption"}

\* C1: no delete_object request is sent unless upload_to_s3 returned without
\* raising earlier in the run; a run that failed in preflight, dump, staging,
\* packaging, encryption or upload has sent no delete request.
C1_DeleteOnlyAfterUpload ==
    /\ deleteRequests # <<>> => upload_returned
    /\ failedPhase \in FailingPhases => deleteRequests = <<>>

C1_Witness ==
    /\ bpc = "done"
    /\ script = "Backup/backup/backup.py"
    /\ upload_returned
    /\ Len(deleteRequests) = 2

\* the objects of the listing that have fewer than k older objects
OldestOf(contents, k) ==
    {contents[i].Key : i \in
        {i \in 1..Len(contents) :
            Cardinality({j \in 1..Len(contents) :
                contents[j].LastModified < contents[i].LastModified}) < k}}

C2_Pre ==
    /\ listed = "ok"
    /\ MAX_BACKUPS_TO_KEEP >= 0
    /\ \A i \in 1..Len(response) :
         /\ StartsWithBackupPrefix(response[i].Key)
         /\ EndsWithEnc(response[i].Key)
    /\ \A i, j \in 1..Len(response) :
         i # j => response[i].LastModified # response[j].LastModified

\* C2: for a listing of n backup objects with distinct last-modified times and
\* a retention maximum M >= 0, delete_old_backups requests the deletion of
\* exactly the max(0, n - M) oldest objects, each once, and of no other; with
\* n <= M it requests nothing.
C2_DeletesExactlyOldestExcess ==
    C2_Pre =>
        LET n == Len(response)
            k == Max(0, n - MAX_BACKUPS_TO_KEEP)
        IN  /\ Len(deleteRequests) = k
            /\ Range(deleteRequests) = OldestOf(response, k)
            /\ Cardinality(Range(deleteRequests)) = k
            /\ n <= MAX_BACKUPS_TO_KEEP => deleteRequests = <<>>

C2_Witness ==
    /\ C2_Pre
    /\ Len(response) = 3
    /\ MAX_BACKUPS_TO_KEEP = 1
    /\ response[1].LastModified > response[2].LastModified
    /\ Len(deleteRequests) = 2

\* C3: when a backup run has ended, neither the plaintext tar nor the
\* encrypted file it created is left on local disk.
C3_NoLocalArtifactsAtEnd ==
    bpc = "done" => tarFile = "absent" /\ encFile = "absent"

\* C4: a run that failed in preflight, dump, staging, packaging, encryption
\* or upload ends with a non-zero exit status; status 0 only when no phase
\* failed.
C4_FailureGivesNonZeroExit ==
    bpc = "done" =>
        /\ failedPhase \in FailingPhases => exitStatus # 0
        /\ exitStatus = 0 => failedPhase = "none"

\* C5: every upload request is sent after preflight, dump, staging, packaging
\* and encryption completed, with the tar closed holding both members and the
\* encrypted file written in full; a run in which one of them failed has sent
\* no upload request.
C5_UploadOnlyAfterCompleteArchive ==
    /\ \A i \in 1..Len(uploadRequests) :
         /\ BeforeUpload \subseteq uploadRequests[i].after
         /\ uploadRequests[i].tar = "complete"
         /\ uploadRequests[i].members = BothMembers
         /\ uploadRequests[i].file = "complete"
    /\ failedPhase \in BeforeUpload => uploadRequests = <<>>

C5_Witness ==
    /\ bpc = "done"
    /\ Len(uploadRequests) = 1
    /\ uploadRequests[1].members = BothMembers

(***************************************************************************)
(* Properties of the encryption envelope                                   *)
(***************************************************************************)
\* C6: the file written by the encrypt step is turned by decrypt_backup with
\* the same password into exactly the original plaintext; with a different
\* password decrypt_backup does not succeed and writes no output.
C6_RoundTrip ==
    cpc = "decrypted" =>
        /\ RESTORE_PASSWORD = BACKUP_PASSWORD =>
             /\ decryptResult = "True"
             /\ outWritten
             /\ outBytes = tarBytes
        /\ RESTORE_PASSWORD # BACKUP_PASSWORD =>
             /\ decryptResult # "True"
             /\ ~outWritten
             /\ outBytes = <<>>

C6_Witness ==
    /\ cpc = "decrypted"
    /\ RESTORE_PASSWORD = BACKUP_PASSWORD
    /\ Len(tarBytes) = 2
    /\ outBytes = tarBytes

(***************************************************************************)
(* Properties of the extraction                                            *)
(***************************************************************************)
UnsafeName(name) ==
    StartsWith(name, "/") \/ StartsWith(name, "\\") \/ ContainsDotDot(name)

\* C7: when creating the members raised nothing, extract_archive reports
\* success; a member is rejected if its name starts with '/' or '\' or
\* contains '..' or its destination resolves outside the extraction root,
\* and is extracted otherwise; nothing is created outside the root, and every
\* entry the extraction added under the root is the place of an accepted
\* member (or a directory made on the way to one).
C7_OnlySafeMembersExtracted ==
    (xpc = "done" /\ ~extractError) =>
        /\ extractResult = "True"
        /\ \A i \in 1..Len(archive) :
             i \in accepted <=> ~(UnsafeName(archive[i].name) \/ i \in destOutside)
        /\ outsideWrites = {}
        /\ \A e \in rootEntries \ rootBefore :
             \/ e.kind = "dir"
             \/ \E i \in accepted : Resolve({}, archive[i].name).path = e.path

(***************************************************************************)
(* Properties of the restore run                                           *)
(***************************************************************************)
DbMutating == {"DROP DATABASE", "CREATE DATABASE", "pg_restore"}

DataCommands ==
    {"rmtree data dir", "copytree data dir", "mv data dir aside", "cp data dir"}

StopCommands ==
    {"stop_container vaultwarden", "systemctl stop"}

EnsureDbStarts == {"ensure db: start postgres", "ensure db: compose up"}

FinalStarts == {"start all: compose up", "systemctl start"}

StartCommands == EnsureDbStarts \cup FinalStarts

Issued(cmds) == \E i \in DOMAIN trace : trace[i] \in cmds

IssuedBefore(cmds, j) == \E i \in 1..(j - 1) : trace[i] \in cmds

\* C8: while the extracted workspace lacks vaultwarden.dump or the data
\* directory, no command has been issued against a service, the database or
\* the target data directory, all three are as they were, and a run that was
\* not interrupted ends with exit status 1.
C8_IncompleteWorkspaceAborts ==
    (rpc # "not running" /\ ~(wsDump /\ wsData)) =>
        /\ trace = <<>>
        /\ dataDir = "original"
        /\ database = "original"
        /\ ~remote_orchestrator
        /\ (rpc = "done" /\ rfailed # "interrupt") => rexit = 1

C8_Witness ==
    /\ rpc = "done"
    /\ rfailed = "verify"
    /\ wsDump
    /\ ~wsData
    /\ mode = "remote"

C10_DbFailureAborts ==
    dbOutcome \in {"create failed", "pg_restore error"} \cup DbTimeouts =>
        /\ rpc \in {"finally", "done"}
        /\ dataDir = "original"
        /\ ~Issued(DataCommands)
        /\ ~Issued(FinalStarts)
        /\ rpc = "done" => rexit = 1

C10_Witness ==
    /\ rpc = "done"
    /\ mode = "remote"
    /\ dbOutcome = "timeout in pg_restore"
    /\ rexit = 1

\* the status the phases of the run decided on
PhaseStatus ==
    CASE rfailed = "none" -> 0
      [] rfailed = "interrupt" -> 130
      [] OTHER -> 1

Restored ==
    /\ database \in {"restored", "partial"}
    /\ dataDir \in {"restored", "nested"}

\* C11: a finished restore run has exit status 0, 1 or 130: 130 exactly when
\* the operator interrupted it, 1 when a phase aborted or an unexpected error
\* was caught, and 0 only when no phase aborted and the database and the data
\* directory were restored.
C11_ExitStatus ==
    rpc = "done" =>
        /\ rexit \in {0, 1, 130}
        /\ rexit = 130 <=> rfailed = "interrupt"
        /\ rfailed \notin {"none", "interrupt"} => rexit = 1
        /\ rexit = 0 => (rfailed = "none" /\ Restored)

\* C12: when a restore run has ended and cleanup_temp_files met no error,
\* neither the decrypted tar nor the workspace nor the local transfer archive
\* is on disk.
C12_NoLocalTemporaryLeft ==
    (rpc = "done" /\ ~cleanupFailed) =>
        /\ ~decryptedTarExists
        /\ ~workspaceExists
        /\ ~transferExists

\* C13: in remote mode, when the remote cleanup failed or timed out, the exit
\* status of the run is still the one its phases decided on.
C13_RemoteCleanupNotFatal ==
    (rpc = "done" /\ remoteCleanup \in {"failed", "timeout"}) => rexit = PhaseStatus

\* C14: in remote mode the copy into the target is never issued while the
\* original data directory is still at the target path, and no command
\* removes the original directory.
C14_RenamedAsideBeforeCopy ==
    mode = "remote" =>
        /\ ~copiedOntoOriginal
        /\ ~Issued({"rmtree data dir"})

(***************************************************************************)
(* Properties of the staging steps of a backup run                         *)
(***************************************************************************)
\* C25: after backup_vaultwarden_data has succeeded the staged tree holds
\* exactly the entries of the source directory.
C25_StagedEqualsSource ==
    "data staging" \in completed => stagedEntries = sourceEntries

\* C26: with VAULTWARDEN_DB_TYPE unset or not one of sqlite, postgres, mysql
\* no dump command is run and nothing is staged; the database backup fails.
C26_UnknownBackendFailsFast ==
    DB_TYPE \notin {"sqlite", "postgres", "mysql"} =>
        /\ dumpAttempts = 0
        /\ ~dumpStaged
        /\ "database dump" \notin completed

\* C27: a run that found pg_dump missing has, when it is over, attempted
\* exactly one installation, has run pg_dump twice when the installation
\* succeeded and once when it did not, and has ended with a non-zero status
\* unless the second pg_dump succeeded.
C27_OneInstallOneRetry ==
    (bpc = "done" /\ (installAttempts > 0 \/ ~pgDumpInstalled)) =>
        /\ installAttempts = 1
        /\ dumpAttempts = IF pgDumpInstalled THEN 2 ELSE 1
        /\ "database dump" \notin completed => exitStatus \notin {-1, 0}

(***************************************************************************)
(* Properties of the owner walk                                            *)
(***************************************************************************)
\* C17: on every owner graph, cyclic ones included, the walk returns; and a
\* walk that met an owner it had already visited has stopped with no
\* controller.
C17_WalkTerminates ==
    /\ <>(wpc = "returned")
    /\ [](circular => (wpc = "returned" /\ wresult = "None"))

C17_Witness ==
    /\ wpc = "returned"
    /\ circular
    /\ podOwner = [kind |-> "ReplicaSet", name |-> "A"]
    /\ rsOwner["A"] = [kind |-> "ReplicaSet", name |-> "B"]
    /\ rsOwner["B"] = [kind |-> "ReplicaSet", name |-> "A"]

(***************************************************************************)
(* Properties of the node drain                                            *)
(***************************************************************************)
ScaleEvents == {"patch application", "patch replicas", "patch suspend"}

DetachRequestEvents == {"detach v1", "detach v2"}

NodeEvents == {"cordon w1", "evict w1", "cordon cp1", "evict cp1"}

Positions(events) == {i \in DOMAIN devents : devents[i] \in events}

AllBefore(first, second) ==
    \A i \in Positions(first), j \in Positions(second) : i < j

PrecededBy(events, earlier) ==
    \A j \in Positions(events) : \E i \in Positions(earlier) : i < j

C16_PreflightSound ==
    /\ "preflight" \in Range(phasesCompleted) =>
           /\ permissions_ok
           /\ \A n \in Nodes : nodeReady[n] = "True"
    /\ (dstatus = "failed" /\ phasesCompleted = <<>>) =>
           /\ devents = <<>>
           /\ replicas = replicasBefore
           /\ suspend = suspendBefore
           /\ automated = automatedBefore
           /\ detachRequested = {} /\ cordoned = {} /\ evicted = {}

\* C18: outside dry-run, a quiesce whose API calls for the controller went
\* through has recorded the replica count N the controller had and left its
\* live count at 0, and has recorded the CronJob's suspend flag and left it
\* true; whatever was recorded is the original value.
C18_QuiesceRecordsOriginal ==
    ("quiesce" \in Range(phasesCompleted) /\ ~dry_run) =>
        /\ "replicas failed" \notin Range(devents) =>
               /\ original_settings.replicas = {replicasBefore}
               /\ replicas = 0
        /\ "suspend failed" \notin Range(devents) =>
               /\ original_settings.suspend = {suspendBefore}
               /\ suspend = "True"
        /\ original_settings.replicas \subseteq {replicasBefore}
        /\ original_settings.suspend \subseteq {suspendBefore}

C18_Witness ==
    /\ "quiesce" \in Range(phasesCompleted)
    /\ ~dry_run
    /\ replicasBefore = MaxReplicas
    /\ replicas = 0
    /\ original_settings.replicas = {MaxReplicas}
    /\ suspendBefore = "False"
    /\ suspend = "True"
    /\ original_settings.suspend = {"False"}

\* C19: when the drain run is over, every application has the self-heal
\* setting it had before quiesce.
C19_SelfHealRestored ==
    dpc = "done" => SelfHealOf(automated) = SelfHealOf(automatedBefore)

C21_DryRunChangesNothing ==
    /\ [][dry_run => UNCHANGED <<drainCluster, detachRequested, cordoned, evicted>>]_allVars
    /\ [](dry_run =>
             /\ Range(devents) \cap (ScaleEvents \cup DetachRequestEvents \cup NodeEvents) = {}
             /\ \A setting \in {{}, {"True"}, {"False"}}, outcome \in ApiOutcomes :
                    restore_self_heal(has_argo, automated, setting, dry_run, outcome)
                        = automated)

C21_Witness ==
    /\ dry_run
    /\ dstatus = "completed"
    /\ replicasBefore > 0
    /\ suspendBefore = "False"
    /\ has_argo /\ SelfHealOf(automatedBefore) = "True"
    /\ \E v \in Volumes : volState[v] = "attached"
    /\ original_settings.replicas = {1}

\* C28: a 404 on the listing of the Longhorn volumes does not make preflight
\* fail when everything else is in order; any other API error in the
\* verification does.
C28_Longhorn404NonFatal ==
    dpc \notin {"preflight", "not running"} =>
        /\ (/\ permissionCalls = [core |-> "200", longhorn |-> "404"]
            /\ \A n \in Nodes : nodeReady[n] = "True")
               => "preflight" \in Range(phasesCompleted)
        /\ (permissionCalls.core # "200" \/ permissionCalls.longhorn = "403")
               => "preflight" \notin Range(phasesCompleted)

\* C30: when an API call of quiesce failed, the quiesce phase does not
\* complete, and nothing is recorded for the controller or the application
\* whose call failed.
C30_QuiesceReportsFailure ==
    /\ Range(devents) \cap {"application failed", "replicas failed", "suspend failed"} # {}
           => "quiesce" \notin Range(phasesCompleted)
    /\ "application failed" \in Range(devents) => original_settings.selfHeal = {}
    /\ "replicas failed" \in Range(devents) => original_settings.replicas = {}
    /\ "suspend failed" \in Range(devents) => original_settings.suspend = {}

(***************************************************************************)
(* Properties of single calls                                              *)
(***************************************************************************)
LogPositions(ops) == {i \in DOMAIN clog : clog[i].op \in ops}

LabelOf(name) == (CHOOSE i \in DOMAIN citems : citems[i].name = name)

\* C22: an attempt of detach_volume that reads the volume and finds it
\* 'detached' returns True, issues no patch and leaves the volume as it is.
C22_DetachedVolumeNotPatched ==
    [][(/\ method = "detach_volume"
        /\ cpos = "call"
        /\ volume.state = "detached"
        /\ Len(clog') > Len(clog)
        /\ clog'[Len(clog) + 1] = Entry("get volume", "v1", "200"))
       => (/\ cresult' = "True"
           /\ cpos' = "returned"
           /\ volume' = volume
           /\ Len(clog') = Len(clog) + 1)]_allVars

C22_Witness ==
    /\ method = "detach_volume"
    /\ ncalls = 2
    /\ cpos = "returned"
    /\ cresult = "True"
    /\ volume.state = "detached"
    /\ \E i \in DOMAIN clog : clog[i] = Entry("patch volume", "v1", "200")
    /\ clog[Len(clog)] = Entry("get volume", "v1", "200")
    /\ clog[Len(clog) - 1] = Entry("call", "detach_volume", "True")

\* C23: drain_nodes cordons no control-plane node before the drain of every
\* worker node has returned True, and after a node's drain has failed nothing
\* more is requested.
C23_WorkersBeforeControlPlane ==
    method = "drain_nodes" =>
        /\ \A j \in LogPositions({"cordon", "evict"}) :
             IsControlPlane(citems[LabelOf(clog[j].target)]) =>
                 \A w \in {k \in DOMAIN citems : IsWorker(citems[k])} :
                     \E i \in 1..(j - 1) :
                         clog[i] = Entry("_drain_single_node", citems[w].name, "True")
        /\ \A i \in DOMAIN clog :
             (clog[i].op = "_drain_single_node" /\ clog[i].status = "False") =>
                 (i = Len(clog) /\ cpos = "returned" /\ cresult = "False")

C23_Witness ==
    /\ method = "drain_nodes"
    /\ ~cdry
    /\ cpos = "returned"
    /\ cresult = "True"
    /\ IsControlPlane(citems[1]) /\ IsWorker(citems[2]) /\ IsWorker(citems[3])
    /\ clog[Len(clog)] = Entry("_drain_single_node", "n1", "True")

\* C24: in _drain_single_node every eviction and every delete comes after the
\* node was cordoned; without the force flag a 429 is the last request of the
\* call, which returns False; with the flag the 429 is followed by the delete
\* of that pod with grace period 0, and after a delete that succeeded the
\* loop goes on with the next pod.
C24_BlockedEviction ==
    method = "_drain_single_node" =>
        /\ LogPositions({"evict", "delete grace 0"}) # {} =>
               clog[1] = Entry("patch_node", "node", "200")
        /\ \A i \in LogPositions({"evict"}) :
             clog[i].status = "429" =>
                 IF ~force_evict_pdb
                 THEN i = Len(clog) /\ cpos = "returned" /\ cresult = "False"
                 ELSE /\ i < Len(clog)
                      /\ clog[i + 1].op = "delete grace 0"
                      /\ clog[i + 1].target = clog[i].target
                      /\ clog[i + 1].status = "200" =>
                             /\ i + 1 < Len(clog) => clog[i + 2].op = "evict"
                             /\ (i + 1 = Len(clog) /\ cpos = "returned") =>
                                    clog[i].target = citems[Len(citems)].name

C24_Witness ==
    /\ method = "_drain_single_node"
    /\ force_evict_pdb
    /\ cpos = "returned"
    /\ cresult = "True"
    /\ Len(clog) = 5
    /\ clog[3] = Entry("evict", "p1", "429")
    /\ clog[4] = Entry("delete grace 0", "p1", "200")
    /\ clog[5] = Entry("evict", "p2", "201")

\* C29: a detach_volume call reports failure only after its fifth attempt.
C29_FailureAfterFifthAttempt ==
    (method = "detach_volume" /\ cpos = "returned"
        /\ cresult \in {"False", "RetryError"}) =>
        attempts = stop_after_attempt

(***************************************************************************)
(* Properties of the database restore step                                 *)
(***************************************************************************)
DbStepFailed == rfailed = "restore_db"

\* C34 as stated: CREATE DATABASE is issued whatever DROP DATABASE did; a
\* failed CREATE DATABASE fails the step with no pg_restore issued; after a
\* non-zero exit of pg_restore the step fails exactly when stderr contains
\* the substring 'error'.
C34_PgRestoreFatalIffError ==
    /\ dbOutcome \notin {"none", "timeout in drop"} => Issued({"CREATE DATABASE"})
    /\ dbOutcome = "create failed" => (DbStepFailed /\ ~Issued({"pg_restore"}))
    /\ dbOutcome \in NonZeroPgRestore =>
           (DbStepFailed <=> StderrOf(dbOutcome) = "error")

\* C34, amended: the same, with the step failing after a non-zero exit of
\* pg_restore exactly when stderr contains 'error' in any letter case.
C34_PgRestoreFatalIffErrorAnyCase ==
    /\ dbOutcome \notin {"none", "timeout in drop"} => Issued({"CREATE DATABASE"})
    /\ dbOutcome = "create failed" => (DbStepFailed /\ ~Issued({"pg_restore"}))
    /\ dbOutcome \in NonZeroPgRestore =>
           (DbStepFailed <=> StderrOf(dbOutcome) \in {"error", "ERROR"})

C34_Witness ==
    /\ dbOutcome = "pg_restore ERROR"
    /\ Issued({"pg_restore"})
    /\ DbStepFailed
    /\ rpc = "done"
    /\ rexit = 1

\* C36: the file named on the command line, once it is there, is neither
\* overwritten nor deleted by the run.
C36_InputArchiveKept == inputArchive \in {"absent", "encrypted"}

\* C37: in local mode, a step that issues DROP DATABASE, CREATE DATABASE or
\* pg_restore is taken only while the application container is not running.
C37_NoDbCommandWhileAppRuns ==
    [][(/\ mode = "local"
        /\ \E i \in DOMAIN trace' :
             /\ i > Len(trace)
             /\ trace'[i] \in {"DROP DATABASE", "CREATE DATABASE", "pg_restore"})
       => vaultwarden # "running"]_allVars

\* C39: after extract_archive has returned, on the filter path and on the
\* fallback path, no member was created outside the extraction root.
C39_NothingOutsideRoot == xpc = "done" => outsideWrites = {}

(***************************************************************************)
(* Properties of the self-heal setting                                     *)
(***************************************************************************)
\* C35: outside dry-run, with Argo available and API calls that succeed,
\* disable_self_heal returns the selfHeal flag of the application (False
\* when absent) and patches exactly when the flag is True; with the flag
\* False the application is left as it is, and a second call right after a
\* first one patches nothing and changes nothing.
C35_DisableOnlyWhenEnabled ==
    /\ has_argo =>
           LET first == disable_self_heal(has_argo, automated, FALSE, "ok")
               second == disable_self_heal(has_argo, first.automated, FALSE, "ok")
           IN  /\ first.setting = {SelfHealOf(automated)}
               /\ first.patched <=> SelfHealOf(automated) = "True"
               /\ SelfHealOf(automated) = "False" => first.automated = automated
               /\ ~second.patched
               /\ second.automated = first.automated
    /\ (/\ has_argo /\ ~dry_run
        /\ "quiesce" \in Range(phasesCompleted)
        /\ "application failed" \notin Range(devents)) =>
           /\ original_settings.selfHeal = {SelfHealOf(automatedBefore)}
           /\ "patch application" \in Range(devents)
                  <=> SelfHealOf(automatedBefore) = "True"
           /\ SelfHealOf(automatedBefore) = "False" => automated = automatedBefore

C35_Witness ==
    /\ has_argo /\ ~dry_run
    /\ "quiesce" \in Range(phasesCompleted)
    /\ automatedBefore = [present |-> TRUE, selfHeal |-> "False", prune |-> TRUE]
    /\ automated = automatedBefore
    /\ original_settings.selfHeal = {"False"}
    /\ "application failed" \notin Range(devents)

\* C40: for an application whose selfHeal is enabled, disable_self_heal
\* followed by restore_self_heal with the setting it returned leaves the
\* automated block as it was before the disable.
C40_DisableRestoreRoundTrip ==
    (/\ has_argo /\ ~dry_run
     /\ SelfHealOf(automatedBefore) = "True"
     /\ "patch application" \in Range(devents)) =>
        restore_self_heal(has_argo, automated, original_settings.selfHeal,
                          FALSE, "ok") = automatedBefore

\* C31: detach_longhorn_volumes submits a detach call exactly for the volumes
\* listed as 'attached', never has more than 5 calls running at once, returns
\* False without polling when a call returned False or raised, and otherwise
\* (not dry-run) returns what wait_for_detachment answers; a dry run returns
\* True without polling. Checked over every interleaving of the workers.
C31_DetachOnlyAttachedBoundedPool ==
    /\ ppc \notin {"not running", "list"} =>
          \A v \in PoolVolumes :
             (ptask[v] # "none") <=>
                (plisted[v] = "attached" /\ attached_names(plisted) # {})
    /\ Cardinality(Running) <= 5
    /\ ppolled => \A v \in attached_names(plisted) : ptask[v] = "True"
    /\ ppc = "returned" =>
          IF \E v \in PoolVolumes : ptask[v] \in {"False", "raised"}
          THEN presult = "False" /\ ~ppolled
          ELSE IF attached_names(plisted) = {} \/ pdry
          THEN presult = "True" /\ ~ppolled
          ELSE ppolled /\ presult = panswer /\ panswer \in {"True", "False"}

C31_Witness ==
    /\ ppc = "returned"
    /\ ~pdry
    /\ attached_names(plisted) = PoolVolumes
    /\ ppolled
    /\ presult = "True"

C31_WitnessFailure ==
    /\ ppc = "returned"
    /\ \E v \in PoolVolumes : ptask[v] = "raised"
    /\ \E v \in PoolVolumes : ptask[v] = "True" /\ v \notin pseen
    /\ presult = "False"

\* C32: wait_for_pod_termination returns True at the first pass in which no
\* discovered pod was read in phase Running or Pending (a pod whose read
\* failed is not counted), keeps polling only while a pass found such a pod,
\* and returns False only once the timeout has elapsed after a pass that
\* still found one.
C32_PodTerminationWait ==
    loop = "wait_for_pod_termination" =>
       /\ lresult = "True" =>
             /\ lpasses > 0
             /\ \A p \in PollPods : lreads[p] \notin {"Running", "Pending"}
       /\ (lpc = "polling" /\ lpasses > 0) =>
             \E p \in PollPods : lreads[p] \in {"Running", "Pending"}
       /\ lresult = "False" =>
             /\ elapsed >= PollTimeout
             /\ \E p \in PollPods : lreads[p] \in {"Running", "Pending"}
       /\ lresult \in {"none", "True", "False"}

C32_Witness ==
    /\ loop = "wait_for_pod_termination"
    /\ lresult = "True"
    /\ lpasses >= 2
    /\ \E p \in PollPods : lreads[p] \in {"404", "500"}

\* C33: every polling loop ends, whatever the polled system answers; once
\* the timeout has elapsed no further pass is made and the loop returns False.
C33_EveryLoopTerminates ==
    /\ <>(lpc = "returned")
    /\ [](lpc = "returned" /\ elapsed >= PollTimeout => lresult = "False")
    /\ [][(lpc = "polling" /\ elapsed >= PollTimeout) =>
             /\ lpasses' = lpasses
             /\ lpc' = "returned" => lresult' = "False"]_allVars

C33_Witness ==
    /\ loop = "wait_for_detachment"
    /\ lpc = "returned"
    /\ lresult = "False"
    /\ elapsed >= PollTimeout
    /\ lpasses >= 2

\* C38: wait_for_pod_termination returns True only if, at its last pass,
\* every discovered pod is gone or in a phase other than Running and
\* Pending, also when reads fail with transient API errors.
C38_SuccessMeansPodsTerminated ==
    (loop = "wait_for_pod_termination" /\ lresult = "True") =>
        \A p \in PollPods : podPhase[p] \notin {"Running", "Pending"}

====
